---- MODULE Spec2Model ----
(***************************************************************************)
(* Model of the priority speech-queue scheduler of LifeAssistGlass         *)
(* (src/src/services/TTSService.ts).  The service is a singleton whose     *)
(* async methods are interleaved by the JavaScript event loop: every       *)
(* action below is one run-to-completion segment of the code, from one     *)
(* await (or event / timer callback entry) to the next.                    *)
(***************************************************************************)
EXTENDS Integers, Sequences, FiniteSets, Bags, TLC

\* ---------------------------------------------------------------- bounds
MaxRequests == 3
MaxStops == 1
MaxRawLength == 203
MaxPersCalls == 3
MaxInitializeCalls == 2

\* ------------------------------------------------------------- constants
MAX_RETRIES == 3

Priorities == {"low", "medium", "high", "urgent"}

PRIORITY_LEVELS == [low |-> 1, medium |-> 2, high |-> 3, urgent |-> 4]

Ids == 1..MaxRequests

\* currentSpeech = null
NoItem == [id |-> 0, text |-> <<>>, priority |-> "low", retryCount |-> 0]

\* settings = null (before initialize)
NoSettings == [enabled |-> FALSE, loaded |-> FALSE, speechRate |-> 0,
               volume |-> 0]

\* The speech rate the service fixes, in tenths (1.0).
FIXED_RATE == 10

\* Rates and volumes are held in tenths: speechRate 1.0 is 10, volume 0.8
\* is 8.
getDefaultSettings == [enabled |-> TRUE, loaded |-> TRUE, speechRate |-> 10,
                       volume |-> 8]

\* The fields of TTSSettings the model holds.
SettingsFields == {"enabled", "speechRate", "volume"}

\* Hours of the day the wall clock is read at: one of the night
\* (hour < 7 or hour > 22), one of the day.
Hours == {3, 12}

\* Characters: one string per character of a text, a non-ASCII character
\* written as its code point; U+1F600 stands for the code points of the
\* ranges preprocessText removes.
EmojiChars == {"U+1F600"}

WhiteSpace == {" ", "\t", "\n"}

MAX_TEXT_LENGTH == 200

\* Raw request texts, as sequences of characters.
Texts == {<<" ">>, <<"U+1F600">>, <<"a">>}

VARIABLES
    isInitialized,     \* TTSService.isInitialized
    settings,          \* TTSService.settings
    speechQueue,       \* TTSService.speechQueue
    currentSpeech,     \* TTSService.currentSpeech
    usageStats,        \* TTSService.usageStats.totalSpeeches
    nextId,            \* ids handed out by generateId, in call order
    pqTasks,           \* processQueue() invocations suspended before Tts.speak
    stopCurrentTasks,  \* stopCurrent() invocations suspended at await Tts.stop()
    stopTasks,         \* stop() invocations suspended at await Tts.stop()
    stopCalls,         \* number of stop() calls made so far
    timers,            \* pending setTimeout(processQueue) callbacks
    engineActive,      \* utterances the engine holds, head is being spoken
    events,            \* engine events emitted and not yet delivered
    returned,          \* what speak() returned in the step just taken
    hour,              \* new Date().getHours(), the wall clock
    \* observations of the run, read by the properties only
    spy,               \* the counting spies on Tts.speak and onError are installed
    handed,            \* per item: number of Tts.speak() calls made for it
    lastHanded,        \* item of the latest Tts.speak() call the engine took
    errCalls,          \* per item: number of onError callback invocations
    preempt,           \* oldest urgent preemption and the hand-over after it
    preempted,         \* items whose playback an urgent preemption cancelled
    dropped,           \* items dropped by onSpeechError at the retry cap
    insertsOnly,       \* the queue holds only insertions since it was empty
    raised,            \* a speak() call ended by raising instead of returning
    saved,             \* the latest saveSettings(): settings before, partial
    snapshot,          \* the latest getQueueStatus() results the caller holds
    \* calls of the service's pure methods
    raw,               \* the text handed to preprocessText()
    sanitized,         \* what preprocessText(raw) returned
    adjusted,          \* what calculateContextualAdjustments() returned
    \* PersonalizationService
    storage,           \* AsyncStorage under the keys of STORAGE_KEYS
    personalizationData, \* PersonalizationService.personalizationData
    persInitialized,   \* PersonalizationService.isInitialized
    persTasks,         \* calls of the service suspended at an await
    persCalls,         \* number of calls of the service made so far
    persSeen,          \* what the callers of the service have seen
    \* initialization of TTSService
    listeners,         \* setupEventListeners() calls made: listeners per event
    initTasks,         \* initialize() calls suspended after their loads
    \* observation of the run, read by the properties only
    fates              \* per item: finished, cancelled, onFinish(false) calls

svc == <<isInitialized, settings>>

tasks == <<stopCurrentTasks, stopTasks, stopCalls>>

engine == <<engineActive, events>>

observed == <<spy, handed, lastHanded, errCalls, preempt, preempted, dropped,
              insertsOnly>>

probes == <<raised, saved, snapshot>>

calls == <<raw, sanitized, adjusted>>

pers == <<storage, personalizationData, persInitialized, persTasks,
          persCalls, persSeen>>

boot == <<listeners, initTasks>>

vars == <<isInitialized, settings, speechQueue, currentSpeech, usageStats,
          nextId, pqTasks, stopCurrentTasks, stopTasks, stopCalls, timers,
          engineActive, events, returned, spy, handed, lastHanded, errCalls,
          preempt, preempted, dropped, insertsOnly, hour, raised, saved,
          snapshot, raw, sanitized, adjusted, storage, personalizationData,
          persInitialized, persTasks, persCalls, persSeen, listeners,
          initTasks, fates>>

\* ------------------------------------------------------- pure helpers

\* The concatenation of parts[lo], ..., parts[hi], by halving.
RECURSIVE Flatten(_, _, _)
Flatten(parts, lo, hi) ==
    IF lo > hi THEN <<>>
    ELSE IF lo = hi THEN parts[lo]
    ELSE LET mid == (lo + hi) \div 2
         IN  Flatten(parts, lo, mid) \o Flatten(parts, mid + 1, hi)

\* String.prototype.replace with a global pattern: every character of `t`
\* is replaced by the characters piece[i] (an empty piece deletes it).
ReplaceEach(t, piece) == Flatten(piece, 1, Len(t))

\* preprocessText that puts a full stop and a blank for every newline.
StopAndBlankForNewline(t) ==
    ReplaceEach(t, [i \in 1..Len(t) |->
        IF t[i] # "\n" THEN <<t[i]>> ELSE <<"U+3002", " ">>])

\* preprocessText, step 1: text.replace(/\n+/g, U+3002): each run of
\* newlines becomes one ideographic full stop.
CollapseNewlines(t) ==
    ReplaceEach(t, [i \in 1..Len(t) |->
        IF t[i] # "\n" THEN <<t[i]>>
        ELSE IF i < Len(t) /\ t[i + 1] = "\n" THEN <<>>
        ELSE <<"U+3002">>])

\* preprocessText, step 2: the code points of the emoji ranges are removed.
StripEmoji(t) == SelectSeq(t, LAMBDA c : c \notin EmojiChars)

\* preprocessText, step 4: the built-in symbolReplacements table: U+FF05
\* (fullwidth percent) becomes the five katakana of "percent", U+23F0 the
\* word for "time" and a comma, U+00B0 followed by C the word for "degree".
\* The entries that start with a code point of the emoji ranges can no
\* longer match after step 2.
ReplaceSymbols(t) ==
    ReplaceEach(t, [i \in 1..Len(t) |->
        IF t[i] = "U+FF05"
        THEN <<"U+30D1", "U+30FC", "U+30BB", "U+30F3", "U+30C8">>
        ELSE IF t[i] = "U+23F0" THEN <<"U+6642", "U+9593", "U+3001">>
        ELSE IF t[i] = "U+00B0" /\ i < Len(t) /\ t[i + 1] = "C"
        THEN <<"U+5EA6">>
        ELSE IF t[i] = "C" /\ i > 1 /\ t[i - 1] = "U+00B0" THEN <<>>
        ELSE <<t[i]>>])

\* preprocessText that cuts a long text to 200 characters and then
\* appends "...".
TruncateLate(t) ==
    IF Len(t) > MAX_TEXT_LENGTH
    THEN SubSeq(t, 1, MAX_TEXT_LENGTH) \o <<".", ".", ".">>
    ELSE t

\* preprocessText, step 5: a text of more than 200 characters is cut to
\* 197 characters plus "...".
Truncate(t) ==
    IF Len(t) > MAX_TEXT_LENGTH
    THEN SubSeq(t, 1, MAX_TEXT_LENGTH - 3) \o <<".", ".", ".">>
    ELSE t

\* String.prototype.trim()
Trim(t) ==
    LET solid == {i \in 1..Len(t) : t[i] \notin WhiteSpace}
    IN  IF solid = {} THEN <<>>
        ELSE SubSeq(t, CHOOSE i \in solid : \A k \in solid : i <= k,
                       CHOOSE i \in solid : \A k \in solid : k <= i)

\* preprocessText, steps 1 to 4: the text whose length step 5 tests.
BeforeTruncation(t) == ReplaceSymbols(StripEmoji(CollapseNewlines(t)))

\* preprocessText with the empty customReplacements table the service is
\* constructed with.
preprocessText(t) == Trim(Truncate(BeforeTruncation(t)))

\* The character `c` repeated `n` times.
Repeat(c, n) == [i \in 1..n |-> c]

\* Lengths of the raw texts: the short ones, those which the fullwidth
\* percent sign (five characters when spoken) brings to the limit, and
\* those around the limit itself.
RawLengths ==
    (0..3) \cup (39..41) \cup ((MAX_TEXT_LENGTH - 4)..MaxRawLength)

\* Raw texts handed to preprocessText(): a run of one character, with or
\* without a leading blank and a trailing ASCII percent sign, and the
\* texts "50%", "50" followed by U+FF05, and "20" followed by U+00B0 C.
RawTexts ==
    {lead \o Repeat(c, n) \o trail :
        lead \in {<<>>, <<" ">>},
        c \in {"a", " ", "\n", "U+FF05", "U+23F0", "U+1F600"},
        n \in RawLengths,
        trail \in {<<>>, <<"%">>}}
    \cup {<<"5", "0", "%">>, <<"5", "0", "U+FF05">>,
          <<"2", "0", "U+00B0", "C">>}

\* speak(): processedText = this.preprocessText(request.text), for every
\* request text of the model.
processedText == [t \in Texts |-> preprocessText(t)]

\* speak() without the gate on the empty text.
NeverEmptyText(t) == FALSE

\* speak(): !processedText.trim()
IsEmptyText(t) == Trim(t) = <<>>

\* addToQueue with the comparison `<=`: a new item overtakes the queued
\* items of its own priority.
InsertIndexOvertaking(q, priority) ==
    LET lower == {i \in 1..Len(q) :
                     PRIORITY_LEVELS[q[i].priority] <= PRIORITY_LEVELS[priority]}
    IN  IF lower = {} THEN Len(q) + 1
        ELSE CHOOSE i \in lower : \A j \in lower : i <= j

\* addToQueue, non-urgent branch: index of the first queued item whose
\* priority level is strictly below the new one, else the end of the queue.
InsertIndex(q, priority) ==
    LET lower == {i \in 1..Len(q) :
                     PRIORITY_LEVELS[q[i].priority] < PRIORITY_LEVELS[priority]}
    IN  IF lower = {} THEN Len(q) + 1
        ELSE CHOOSE i \in lower : \A j \in lower : i <= j

\* Array.prototype.splice(i, 0, item), with 1-based index.
Splice(q, i, item) == SubSeq(q, 1, i - 1) \o <<item>> \o SubSeq(q, i, Len(q))

\* Array.prototype.unshift(item)
Unshift(q, item) == <<item>> \o q

\* addToQueue: the queue after the insertion.
addToQueue(q, item) ==
    IF item.priority = "urgent"
    THEN Unshift(q, item)
    ELSE Splice(q, InsertIndex(q, item.priority), item)

\* addToQueue that stops the active item for every urgent request.
PreemptsAnyActive(item, cur) ==
    item.priority = "urgent" /\ cur # NoItem

\* addToQueue: whether the insertion calls stopCurrent().
Preempts(item, cur) ==
    item.priority = "urgent" /\ cur # NoItem /\ cur.priority # "urgent"

\* onSpeechError without the retry cap.
RetryAlways(retryCount) == TRUE

\* onSpeechError: the retry test applied to the incremented retryCount.
RetryAllowed(retryCount) == retryCount < MAX_RETRIES

\* onSpeechError: the queue after the failure of the active item `cur`.
QueueAfterError(q, cur) ==
    IF cur = NoItem THEN q
    ELSE LET failed == [cur EXCEPT !.retryCount = @ + 1]
         IN  IF RetryAllowed(failed.retryCount) THEN Unshift(q, failed) ELSE q

\* speak() without the gate on settings.enabled.
SpeakAlwaysEnabled(s) == TRUE

\* speak(): the gate on settings.enabled.
SpeakEnabled(s) == s.enabled

\* Tts.stop() as the engine performs it: every utterance it holds is
\* cancelled and reports one tts-cancel event.
RECURSIVE CancelEvents(_)
CancelEvents(utterances) ==
    IF utterances = <<>> THEN <<>>
    ELSE <<[type |-> "cancel", id |-> Head(utterances)]>>
         \o CancelEvents(Tail(utterances))

PqTask(item, fromSpeak) ==
    [id |-> item.id, fromSpeak |-> fromSpeak, priority |-> item.priority]

\* calculateContextualAdjustments(): the priorityThreshold it returns for
\* the hour `h`.  No caller reads it.
priorityThreshold(h) == IF h < 7 \/ h > 22 THEN "medium" ELSE "low"

\* calculateContextualAdjustments(): the change of volume for the hour
\* `h`, in tenths.
TimeAdjustment(h) == IF h < 7 \/ h > 22 THEN 0 - 3 ELSE 0

\* calculateContextualAdjustments(): the change of volume for the
\* priority, in tenths.
PriorityAdjustment(priority) ==
    CASE priority = "urgent" -> 2
      [] priority = "high" -> 1
      [] priority = "low" -> 0 - 1
      [] OTHER -> 0

\* calculateContextualAdjustments(priority) at the hour `h`.
calculateContextualAdjustments(priority, h) ==
    [volumeAdjustment |-> TimeAdjustment(h) + PriorityAdjustment(priority),
     speedAdjustment |-> 0,
     priorityThreshold |-> priorityThreshold(h)]

\* The hours new Date().getHours() returns.
HoursOfDay == 0..23

\* updateUsageStats() without the count.
updateUsageStatsNothing(total) == total

\* updateUsageStats(): usageStats.totalSpeeches++
updateUsageStats(total) == total + 1

\* applySettings(): after the engine calls, settings.speechRate = 1.0; a
\* rejected engine call skips the assignment.
applySettings(s, applyOk) ==
    IF applyOk THEN [s EXCEPT !.speechRate = FIXED_RATE] ELSE s

\* getDefaultUsageStats().totalSpeeches
getDefaultUsageStats == 0

\* loadSettings() whose catch block passes the read error on.
loadSettingsRethrows(stored, readOk) ==
    [threw |-> ~readOk,
     value |-> IF readOk THEN stored ELSE getDefaultSettings]

\* loadSettings(): the stored settings; the defaults when the read of
\* storage is rejected (`readOk` false), which its catch block turns into
\* a normal return.
loadSettings(stored, readOk) ==
    [threw |-> FALSE,
     value |-> IF readOk THEN stored ELSE getDefaultSettings]

\* loadUsageStats(): the stored statistics; the zeroed ones when the read
\* of storage is rejected, again returned normally.
loadUsageStats(stored, readOk) ==
    [threw |-> FALSE,
     value |-> IF readOk THEN stored ELSE getDefaultUsageStats]

\* Math.max(lo, Math.min(hi, x))
Clamp(lo, hi, x) == IF x < lo THEN lo ELSE IF x > hi THEN hi ELSE x

\* applyAdaptiveSettings(): settings.volume becomes the volume plus the
\* contextual adjustment, kept within 0.1 and 1.0; settings.speechRate
\* becomes 1.0.
applyAdaptiveSettings(s, priority, h) ==
    [s EXCEPT
        !.volume = Clamp(1, 10,
            s.volume + calculateContextualAdjustments(priority, h).volumeAdjustment),
        !.speechRate = FIXED_RATE]

\* saveSettings() that replaces the settings by the values given instead
\* of merging them.
MergeSettingsReplace(prev, partial) ==
    [f \in DOMAIN prev |->
        IF f = "speechRate" THEN FIXED_RATE ELSE partial.values[f]]

\* saveSettings(): { ...this.settings, ...newSettings, speechRate: 1.0 }.
\* A partial names a set of fields and gives their values.
MergeSettings(prev, partial) ==
    [f \in DOMAIN prev |->
        IF f = "speechRate" THEN FIXED_RATE
        ELSE IF f \in partial.fields THEN partial.values[f]
        ELSE prev[f]]

\* Settings found in storage that differ from the defaults in `enabled`.
StoredEnabled == {[getDefaultSettings EXCEPT !.enabled = e] : e \in BOOLEAN}

\* Settings found in storage, written by this or an earlier version of the
\* application: any enabled flag, rate 1.0 or 1.5, volume 0.5 or 0.8.
StoredSettings ==
    {[enabled |-> e, loaded |-> TRUE, speechRate |-> r, volume |-> v] :
        e \in BOOLEAN, r \in {10, 15}, v \in {5, 8}}

\* saveSettings(partial) for every set of fields and every value of them.
Partials ==
    {[fields |-> F, values |-> v] :
        F \in SUBSET SettingsFields, v \in StoredSettings}

\* saveSettings({enabled: e})
PartialsEnabled ==
    {[fields |-> {"enabled"}, values |-> v] : v \in StoredEnabled}

\* No saveSettings() call observed yet.
NoSave == [done |-> FALSE, prev |-> NoSettings,
           partial |-> [fields |-> {}, values |-> NoSettings]]

\* No getQueueStatus() call observed yet.  Of the two latest results each
\* is kept with the queue it was taken of; `held` is the items array of the
\* latest result as the caller holds it, `aliased` tells whether that array
\* is the queue's own.
NoSnapshot ==
    [calls |-> 0,
     first |-> [length |-> 0, items |-> <<>>, of |-> <<>>],
     second |-> [length |-> 0, items |-> <<>>, of |-> <<>>],
     held |-> <<>>, aliased |-> FALSE]

\* getQueueStatus() that returns the queue array itself.
SameArray(q) == [items |-> q, aliased |-> TRUE]

\* [...this.speechQueue]: a new array with the same elements.
SpreadCopy(q) == [items |-> q, aliased |-> FALSE]

\* No preprocessText() call observed yet.
NoSanitized == [done |-> FALSE, long |-> FALSE, out |-> <<>>]

\* No calculateContextualAdjustments() call observed yet.
NoAdjusted ==
    [done |-> FALSE, priority |-> "low", volumeAdjustment |-> 0,
     speedAdjustment |-> 0, priorityThreshold |-> "low"]

\* ------------------------------------------- PersonalizationService

\* No user profile: loadUserProfile() returns null.  Of a stored profile
\* the model holds setupProgress.weeklySchedule.
NoProfile == [present |-> FALSE, weeklySchedule |-> FALSE]

\* The fields of PersonalizationSettings the model holds.
PersSettingsFields == {"adviceFrequency", "language"}

\* PersonalizationService.getDefaultSettings()
persDefaultSettings == [adviceFrequency |-> "medium", language |-> "ja"]

PersSettings ==
    [adviceFrequency : {"medium", "high"}, language : {"ja", "en"}]

\* saveSettings(partial): a set of fields and their values.
PersPartials ==
    {[fields |-> F, values |-> v] :
        F \in (SUBSET PersSettingsFields) \ {{}},
        v \in {[adviceFrequency |-> "high", language |-> "en"]}}

\* STORAGE_KEYS
StorageKeys == {"userProfile", "weeklySchedule", "behaviorAnalysis",
                "adviceHistory", "settings"}

\* AsyncStorage with none of the keys.
EmptyStorage ==
    [userProfile |-> NoProfile, weeklySchedule |-> FALSE,
     behaviorAnalysis |-> FALSE, adviceHistory |-> FALSE,
     settings |-> [present |-> FALSE, value |-> persDefaultSettings]]

\* AsyncStorage as an earlier run of the application with a complete
\* setup left it.
EarlierStorage ==
    [userProfile |-> [present |-> TRUE, weeklySchedule |-> TRUE],
     weeklySchedule |-> TRUE, behaviorAnalysis |-> TRUE,
     adviceHistory |-> TRUE,
     settings |-> [present |-> TRUE,
                   value |-> [adviceFrequency |-> "high", language |-> "ja"]]]

\* personalizationData = null
NoData ==
    [present |-> FALSE, userProfile |-> NoProfile, weeklySchedule |-> FALSE,
     settings |-> persDefaultSettings]

\* What the callers have seen: a saveUserProfile() and a
\* saveWeeklySchedule() have returned; clearAllData() has returned and no
\* save was called since; the latest getSetupStatus() and
\* getPersonalizationData() results.
NothingSeen ==
    [profileSaved |-> FALSE, scheduleSaved |-> FALSE, cleared |-> FALSE,
     status |-> [returned |-> FALSE, scheduleMissing |-> FALSE],
     data |-> [returned |-> FALSE, afterClear |-> FALSE,
               userProfile |-> NoProfile, settings |-> persDefaultSettings]]

\* loadUserProfile(): null when the key is absent or the read is rejected.
loadUserProfile(st, readOk) == IF readOk THEN st.userProfile ELSE NoProfile

\* loadWeeklySchedule(): null when the key is absent or the read is
\* rejected.
loadWeeklySchedule(st, readOk) == readOk /\ st.weeklySchedule

\* PersonalizationService.loadSettings(): the defaults when the key is
\* absent or the read is rejected.
persLoadSettings(st, readOk) ==
    IF readOk /\ st.settings.present THEN st.settings.value
    ELSE persDefaultSettings

\* PersonalizationService.saveSettings(): { ...currentSettings, ...settings }
persMergeSettings(current, partial) ==
    [f \in DOMAIN current |->
        IF f \in partial.fields THEN partial.values[f] ELSE current[f]]

\* What the loads of one call returned.
NoLoads == [userProfile |-> NoProfile, weeklySchedule |-> FALSE,
            settings |-> persDefaultSettings]

NoPartial == [fields |-> {}, values |-> persDefaultSettings]

\* A call of the service suspended at an await: `pc` names the await,
\* `loads` holds what it has read, `clean` that no save was in flight
\* when it began and none was called since (clearAllData), that it began
\* after a clearAllData() with no save since (getPersonalizationData), or
\* that it began after both saves (getSetupStatus).
PersTask(id, op, pc, partial, loads, clean) ==
    [id |-> id, op |-> op, pc |-> pc, partial |-> partial, loads |-> loads,
     clean |-> clean]

SaveOps == {"saveUserProfile", "saveWeeklySchedule", "saveSettings"}

\* A save is called: no clearAllData() in flight is clean any more.
Dirtied(ts) == {[t EXCEPT !.clean = IF t.op = "clearAllData" THEN FALSE ELSE @] : t \in ts}

\* getSetupStatus(): whether the weekly schedule is among missingSteps.
ScheduleMissing(profile, schedule) ==
    IF ~profile.present THEN TRUE
    ELSE ~profile.weeklySchedule \/ ~schedule

\* No observation of the fates of the items: of each item, whether the
\* engine finished it, whether the engine cancelled its playback, whether
\* stop() discarded it from the queue or the slot, and how often its
\* onFinish was called with false.
NoFates ==
    [on |-> FALSE, finished |-> {}, cancelled |-> {}, discarded |-> {},
     finishFalse |-> [i \in Ids |-> 0]]

\* The fates with the engine's tts-finish for item `id` recorded.
FatesFinished(id) ==
    IF fates.on THEN [fates EXCEPT !.finished = @ \cup {id}] ELSE fates

\* The fates with the playback of the items `ids` recorded as cancelled.
FatesCancelled(ids) ==
    IF fates.on THEN [fates EXCEPT !.cancelled = @ \cup ids] ELSE fates

\* The fates with the items `ids` recorded as discarded by stop().
FatesDiscarded(ids) ==
    IF fates.on THEN [fates EXCEPT !.discarded = @ \cup ids] ELSE fates

\* The fates with one more onFinish(false) call of item `id` recorded.
FatesFinishFalse(id) ==
    IF fates.on THEN [fates EXCEPT !.finishFalse[id] = @ + 1] ELSE fates

\* The service as constructed, nothing stored.
InitPersonalization ==
    /\ storage = EmptyStorage
    /\ personalizationData = NoData
    /\ persInitialized = FALSE
    /\ persTasks = {}
    /\ persCalls = 0
    /\ persSeen = NothingSeen

\* ---------------------------------------------------------------- Init

Init ==
    /\ isInitialized = FALSE
    /\ settings = NoSettings
    /\ speechQueue = <<>>
    /\ currentSpeech = NoItem
    /\ usageStats = 0
    /\ nextId = 1
    /\ pqTasks = EmptyBag
    /\ stopCurrentTasks = 0
    /\ stopTasks = 0
    /\ stopCalls = 0
    /\ timers = 0
    /\ engineActive = <<>>
    /\ events = <<>>
    /\ returned = "none"
    /\ hour = 12
    /\ spy = FALSE
    /\ handed = [i \in Ids |-> 0]
    /\ lastHanded = 0
    /\ errCalls = [i \in Ids |-> 0]
    /\ preempt = [want |-> 0, got |-> 0]
    /\ preempted = {}
    /\ dropped = {}
    /\ insertsOnly = TRUE
    /\ raised = FALSE
    /\ saved = NoSave
    /\ snapshot = NoSnapshot
    /\ raw = <<>>
    /\ sanitized = NoSanitized
    /\ adjusted = NoAdjusted
    /\ InitPersonalization
    /\ listeners = 0
    /\ initTasks = EmptyBag
    /\ fates = NoFates

\* ------------------------------------------------- shared code segments

\* processQueue() up to its first await, entered with the queue `q`:
\* nothing when the queue is empty or the slot is taken, else the head is
\* shifted into the slot and the invocation suspends before Tts.speak().
ProcessQueue(q, fromSpeak) ==
    IF q = <<>> \/ currentSpeech # NoItem
    THEN /\ speechQueue' = q
         /\ UNCHANGED <<currentSpeech, pqTasks>>
    ELSE /\ currentSpeech' = Head(q)
         /\ speechQueue' = Tail(q)
         /\ pqTasks' = pqTasks (+) SetToBag({PqTask(Head(q), fromSpeak)})

\* speak() resumed after await processQueue(): updateUsageStats(), whose
\* write to storage succeeds or is rejected; nothing when processQueue()
\* was called by a timer.
speakResumes(task, storageOk) ==
    /\ usageStats' = IF task.fromSpeak
                     THEN updateUsageStats(usageStats) ELSE usageStats
    /\ raised' = IF spy /\ task.fromSpeak /\ ~storageOk THEN TRUE ELSE raised
    /\ UNCHANGED <<saved, snapshot, calls>>

\* applyPersonalizedSettings(item): getPersonalizationData() initializes
\* PersonalizationService from storage when that was not done yet; with a
\* user profile applyAdaptiveSettings() is run for the item's priority at
\* the wall clock, without one the settings are left as they are.
ApplyPersonalizedSettings(priority) ==
    LET data == IF persInitialized THEN personalizationData
                ELSE [present |-> TRUE,
                      userProfile |-> loadUserProfile(storage, TRUE),
                      weeklySchedule |-> loadWeeklySchedule(storage, TRUE),
                      settings |-> persLoadSettings(storage, TRUE)]
    IN  /\ personalizationData' = data
        /\ persInitialized' = TRUE
        /\ settings' = IF data.userProfile.present
                       THEN applyAdaptiveSettings(settings, priority, hour)
                       ELSE settings
        /\ UNCHANGED <<isInitialized, storage, persTasks, persCalls, persSeen>>

\* onSpeechError(), called `runs` times in a row (once by each registered
\* listener): the first call retries or drops the active item and frees
\* the slot, the later ones find the slot free; each arms a 500 ms timer.
OnSpeechError(runs) ==
    /\ speechQueue' = QueueAfterError(speechQueue, currentSpeech)
    /\ currentSpeech' = NoItem
    /\ timers' = timers + runs
    /\ dropped' = IF currentSpeech # NoItem
                     /\ ~RetryAllowed(currentSpeech.retryCount + 1)
                  THEN dropped \cup {currentSpeech.id}
                  ELSE dropped
    /\ insertsOnly' = (speechQueue' = <<>> \/ (speechQueue' = speechQueue /\ insertsOnly))

\* onSpeechCompleted(), called `runs` times in a row (once by each
\* registered listener): free the slot, arm a 100 ms timer each time.
OnSpeechCompleted(runs) ==
    /\ currentSpeech' = NoItem
    /\ timers' = timers + runs

\* Tts.stop() taken by the engine.
TtsStop ==
    /\ events' = events \o CancelEvents(engineActive)
    /\ engineActive' = <<>>

\* ------------------------------------------------------------- actions

\* initialize(): the settings are the stored ones (loadSettings, the
\* defaults when nothing is stored); applySettings() then configures the
\* engine and forces speechRate to 1.0, unless one of its engine calls is
\* rejected (`applyOk` false), which its catch block only logs; the engine
\* listeners are registered.
Initialize(stored, applyOk) ==
    /\ ~isInitialized
    /\ settings' = applySettings(stored, applyOk)
    /\ listeners' = listeners + 1
    /\ isInitialized' = TRUE
    /\ returned' = "none"
    /\ UNCHANGED <<hour, probes, calls, pers>>
    /\ UNCHANGED <<speechQueue, currentSpeech, usageStats, nextId, pqTasks,
                   tasks, timers, engine, observed>>
    /\ UNCHANGED <<initTasks, fates>>

\* What storage holds under the keys tts_settings and tts_usage_stats when
\* the application starts after earlier use.
EarlierSettings == [enabled |-> TRUE, loaded |-> TRUE, speechRate |-> 15,
                    volume |-> 5]

EarlierStats == [totalSpeeches |-> 5]

\* An initialize() call: where it is suspended, what its loads returned and
\* whether its reads of storage succeeded.
InitTask(stage, settingsOk, statsOk) ==
    [stage |-> stage,
     settings |-> loadSettings(EarlierSettings, settingsOk),
     usageStats |-> loadUsageStats(EarlierStats.totalSpeeches, statsOk),
     settingsOk |-> settingsOk,
     statsOk |-> statsOk]

\* The initialize() call `t` moved on to `stage`; a completed call stays
\* in the bag as the record of the calls made.
InitTaskMoves(t, stage) ==
    initTasks' = (initTasks (-) SetToBag({t}))
                     (+) SetToBag({[t EXCEPT !.stage = stage]})

\* initialize() called while isInitialized is false, by speak() or by any
\* other public method, up to the await of the three loads: nothing guards
\* against a call already under way.  The reads of storage this call makes
\* succeed or are rejected.
InitializeCall(settingsOk, statsOk) ==
    /\ ~isInitialized
    /\ BagCardinality(initTasks) < MaxInitializeCalls
    /\ initTasks' = initTasks
                       (+) SetToBag({InitTask("called", settingsOk, statsOk)})
    /\ returned' = "none"
    /\ UNCHANGED <<hour, probes, calls, pers>>
    /\ UNCHANGED <<svc, speechQueue, currentSpeech, usageStats, nextId,
                   pqTasks, tasks, timers, engine, observed>>
    /\ UNCHANGED <<listeners, fates>>

\* initialize() resumed after Promise.all: settings and usageStats are
\* assigned what the loads returned.  A load that threw takes the call to
\* its catch block instead: defaults, isInitialized, no listeners.
InitializeLoaded(t) ==
    /\ BagIn(t, initTasks)
    /\ t.stage = "called"
    /\ IF t.settings.threw \/ t.usageStats.threw
       THEN /\ settings' = getDefaultSettings
            /\ usageStats' = getDefaultUsageStats
            /\ isInitialized' = TRUE
            /\ InitTaskMoves(t, "done")
       ELSE /\ settings' = t.settings.value
            /\ usageStats' = t.usageStats.value
            /\ InitTaskMoves(t, "loaded")
            /\ UNCHANGED isInitialized
    /\ returned' = "none"
    /\ UNCHANGED <<hour, probes, calls, pers>>
    /\ UNCHANGED <<speechQueue, currentSpeech, nextId, pqTasks, tasks,
                   timers, engine, observed>>
    /\ UNCHANGED <<listeners, fates>>

\* initialize() resumed after loadAvailableVoices() and applySettings():
\* speechRate of the settings now held is forced to 1.0, the listeners are
\* registered, isInitialized is set.
InitializeDone(t, applyOk) ==
    /\ BagIn(t, initTasks)
    /\ t.stage = "loaded"
    /\ settings' = applySettings(settings, applyOk)
    /\ listeners' = listeners + 1
    /\ isInitialized' = TRUE
    /\ InitTaskMoves(t, "done")
    /\ returned' = "none"
    /\ UNCHANGED <<hour, probes, calls, pers>>
    /\ UNCHANGED <<speechQueue, currentSpeech, usageStats, nextId, pqTasks,
                   tasks, timers, engine, observed>>
    /\ UNCHANGED fates

\* speak(), disabled branch.
SpeakDisabled ==
    /\ isInitialized
    /\ ~SpeakEnabled(settings)
    /\ returned' = "disabled"
    /\ UNCHANGED <<hour, probes, calls, pers>>
    /\ UNCHANGED <<svc, speechQueue, currentSpeech, usageStats, nextId,
                   pqTasks, tasks, timers, engine, observed>>
    /\ UNCHANGED <<boot, fates>>

\* speak(), empty-text branch.
SpeakEmpty(text) ==
    /\ isInitialized
    /\ SpeakEnabled(settings)
    /\ IsEmptyText(processedText[text])
    /\ returned' = "empty"
    /\ UNCHANGED <<hour, probes, calls, pers>>
    /\ UNCHANGED <<svc, speechQueue, currentSpeech, usageStats, nextId,
                   pqTasks, tasks, timers, engine, observed>>
    /\ UNCHANGED <<boot, fates>>

\* speak(), accepted: addToQueue (with stopCurrent() up to its await when an
\* urgent item preempts; `stopOk` tells whether the engine takes that
\* Tts.stop() or rejects it), then processQueue() up to its first await
\* when the slot is empty, else updateUsageStats(), whose write to storage
\* succeeds or is rejected (`storageOk`); a rejected write makes speak()
\* raise.  `returned` tells that the request was accepted into the scheduler.
SpeakAccepted(text, priority, stopOk, storageOk) ==
    /\ isInitialized
    /\ SpeakEnabled(settings)
    /\ nextId <= MaxRequests
    /\ ~IsEmptyText(processedText[text])
    /\ LET item == [id |-> nextId, text |-> processedText[text],
                    priority |-> priority, retryCount |-> 0]
           q1 == addToQueue(speechQueue, item)
       IN  /\ IF Preempts(item, currentSpeech)
              THEN /\ IF stopOk
                      THEN /\ TtsStop
                           /\ stopCurrentTasks' = stopCurrentTasks + 1
                           /\ preempted' =
                                IF \E k \in 1..Len(engineActive) :
                                      engineActive[k] = currentSpeech.id
                                THEN preempted \cup {currentSpeech.id}
                                ELSE preempted
                      ELSE UNCHANGED <<engine, stopCurrentTasks, preempted>>
                   /\ preempt' = IF preempt.want # 0 /\ preempt.got = 0
                                 THEN preempt
                                 ELSE [want |-> item.id, got |-> 0]
              ELSE UNCHANGED <<engine, stopCurrentTasks, preempted, preempt>>
           /\ ProcessQueue(q1, TRUE)
           /\ insertsOnly' = IF currentSpeech = NoItem
                             THEN Tail(q1) = <<>>
                             ELSE speechQueue = <<>> \/ insertsOnly
           /\ usageStats' = IF currentSpeech = NoItem
                            THEN usageStats
                            ELSE updateUsageStats(usageStats)
           /\ raised' = IF spy /\ currentSpeech # NoItem /\ ~storageOk
                         THEN TRUE ELSE raised
           /\ returned' = "accepted"
           /\ UNCHANGED <<hour, saved, snapshot, calls, pers>>
           /\ nextId' = nextId + 1
    /\ UNCHANGED <<svc, stopTasks, stopCalls, timers, spy, handed,
                   lastHanded, errCalls, dropped>>
    /\ UNCHANGED boot
    /\ fates' = IF stopOk /\ Preempts([priority |-> priority], currentSpeech)
                  THEN FatesCancelled({engineActive[k] : k \in 1..Len(engineActive)})
                  ELSE fates

\* processQueue() resumed: applyPersonalizedSettings, then Tts.speak() is
\* called and the engine takes the utterance.  A speak() waiting for this
\* processQueue() then records its usage statistics and raises when the
\* write to storage is rejected.
PqSpeak(task, storageOk) ==
    /\ BagIn(task, pqTasks)
    /\ pqTasks' = pqTasks (-) SetToBag({task})
    /\ ApplyPersonalizedSettings(task.priority)
    /\ speakResumes(task, storageOk)
    /\ engineActive' = Append(engineActive, task.id)
    /\ handed' = IF spy THEN [handed EXCEPT ![task.id] = @ + 1] ELSE handed
    /\ lastHanded' = IF spy THEN task.id ELSE lastHanded
    /\ preempt' = IF preempt.want # 0 /\ preempt.got = 0
                  THEN [preempt EXCEPT !.got = task.id]
                  ELSE preempt
    /\ returned' = "none"
    /\ UNCHANGED hour
    /\ UNCHANGED <<speechQueue, currentSpeech, nextId, tasks, timers,
                   events, spy, errCalls, preempted, dropped, insertsOnly>>
    /\ UNCHANGED <<boot, fates>>

\* processQueue() resumed: applyPersonalizedSettings, then Tts.speak() is
\* called and rejected; the catch block calls the item's onError and then
\* onSpeechError().  A speak() waiting for this processQueue() then records
\* its usage statistics and raises when the write to storage is rejected.
PqReject(task, storageOk) ==
    /\ BagIn(task, pqTasks)
    /\ pqTasks' = pqTasks (-) SetToBag({task})
    /\ ApplyPersonalizedSettings(task.priority)
    /\ speakResumes(task, storageOk)
    /\ handed' = IF spy THEN [handed EXCEPT ![task.id] = @ + 1] ELSE handed
    /\ errCalls' = IF spy THEN [errCalls EXCEPT ![task.id] = @ + 1] ELSE errCalls
    /\ OnSpeechError(1)
    /\ returned' = "none"
    /\ UNCHANGED hour
    /\ UNCHANGED <<nextId, tasks, engine, spy, lastHanded, preempt,
                   preempted>>
    /\ UNCHANGED <<boot, fates>>

\* The engine ends the utterance it is speaking and emits tts-finish.
EngineFinish ==
    /\ engineActive # <<>>
    /\ events' = Append(events, [type |-> "finish", id |-> Head(engineActive)])
    /\ engineActive' = Tail(engineActive)
    /\ returned' = "none"
    /\ UNCHANGED <<hour, probes, calls, pers>>
    /\ UNCHANGED <<svc, speechQueue, currentSpeech, usageStats, nextId,
                   pqTasks, tasks, timers, observed>>
    /\ UNCHANGED boot
    /\ fates' = FatesFinished(Head(engineActive))

\* The engine fails the utterance it is speaking and emits tts-error.
EngineError ==
    /\ engineActive # <<>>
    /\ events' = Append(events, [type |-> "error", id |-> Head(engineActive)])
    /\ engineActive' = Tail(engineActive)
    /\ returned' = "none"
    /\ UNCHANGED <<hour, probes, calls, pers>>
    /\ UNCHANGED <<svc, speechQueue, currentSpeech, usageStats, nextId,
                   pqTasks, tasks, timers, observed>>
    /\ UNCHANGED <<boot, fates>>

\* tts-finish / tts-cancel listener: the active item's onFinish, then
\* onSpeechCompleted().
OnFinishOrCancel ==
    /\ events # <<>>
    /\ Head(events).type \in {"finish", "cancel"}
    /\ events' = Tail(events)
    /\ listeners > 0
    /\ OnSpeechCompleted(listeners)
    /\ returned' = "none"
    /\ UNCHANGED <<hour, probes, calls, pers>>
    /\ UNCHANGED <<svc, speechQueue, usageStats, nextId, pqTasks, tasks,
                   engineActive, observed>>
    /\ UNCHANGED boot
    /\ fates' = IF Head(events).type = "cancel" /\ currentSpeech # NoItem
                  THEN FatesFinishFalse(currentSpeech.id)
                  ELSE fates

\* tts-error listener: the active item's onError, then onSpeechError().
OnError ==
    /\ events # <<>>
    /\ Head(events).type = "error"
    /\ events' = Tail(events)
    /\ errCalls' = IF spy /\ currentSpeech # NoItem
                   THEN [errCalls EXCEPT ![currentSpeech.id] = @ + 1]
                   ELSE errCalls
    /\ listeners > 0
    /\ OnSpeechError(listeners)
    /\ returned' = "none"
    /\ UNCHANGED <<hour, probes, calls, pers>>
    /\ UNCHANGED <<svc, usageStats, nextId, pqTasks, tasks, engineActive,
                   spy, handed, lastHanded, preempt, preempted>>
    /\ UNCHANGED <<boot, fates>>

\* tts-finish / tts-cancel listener whose call of the active item's
\* onFinish throws: the exception leaves the listener before
\* onSpeechCompleted() is reached.
OnFinishOrCancelThrows ==
    /\ events # <<>>
    /\ Head(events).type \in {"finish", "cancel"}
    /\ listeners > 0
    /\ currentSpeech # NoItem
    /\ events' = Tail(events)
    /\ returned' = "none"
    /\ UNCHANGED <<hour, probes, calls, pers>>
    /\ UNCHANGED <<svc, speechQueue, currentSpeech, usageStats, nextId,
                   pqTasks, tasks, timers, engineActive, observed>>
    /\ UNCHANGED boot
    /\ fates' = IF Head(events).type = "cancel" /\ currentSpeech # NoItem
                  THEN FatesFinishFalse(currentSpeech.id)
                  ELSE fates

\* tts-error listener whose call of the active item's onError throws: the
\* exception leaves the listener before onSpeechError() is reached.
OnErrorThrows ==
    /\ events # <<>>
    /\ Head(events).type = "error"
    /\ listeners > 0
    /\ currentSpeech # NoItem
    /\ events' = Tail(events)
    /\ errCalls' = IF spy THEN [errCalls EXCEPT ![currentSpeech.id] = @ + 1]
                   ELSE errCalls
    /\ returned' = "none"
    /\ UNCHANGED <<hour, probes, calls, pers>>
    /\ UNCHANGED <<svc, speechQueue, currentSpeech, usageStats, nextId,
                   pqTasks, tasks, timers, engineActive, spy, handed,
                   lastHanded, preempt, preempted, dropped, insertsOnly>>
    /\ UNCHANGED <<boot, fates>>

\* setTimeout callback of onSpeechCompleted / onSpeechError: processQueue()
\* up to its first await.
TimerFire ==
    /\ timers > 0
    /\ timers' = timers - 1
    /\ ProcessQueue(speechQueue, FALSE)
    /\ insertsOnly' = (speechQueue' = <<>> \/ (speechQueue' = speechQueue /\ insertsOnly))
    /\ returned' = "none"
    /\ UNCHANGED <<hour, probes, calls, pers>>
    /\ UNCHANGED <<svc, usageStats, nextId, tasks, engine, spy, handed,
                   lastHanded, errCalls, preempt, preempted, dropped>>
    /\ UNCHANGED <<boot, fates>>

\* stopCurrent() resumed after await Tts.stop().
StopCurrentResume ==
    /\ stopCurrentTasks > 0
    /\ stopCurrentTasks' = stopCurrentTasks - 1
    /\ currentSpeech' = NoItem
    /\ returned' = "none"
    /\ UNCHANGED <<hour, probes, calls, pers>>
    /\ UNCHANGED <<svc, speechQueue, usageStats, nextId, pqTasks, stopTasks,
                   stopCalls, timers, engine, observed>>
    /\ UNCHANGED <<boot, fates>>

\* stop() up to await Tts.stop(), which the engine takes.
Stop ==
    /\ stopCalls < MaxStops
    /\ stopCalls' = stopCalls + 1
    /\ TtsStop
    /\ stopTasks' = stopTasks + 1
    /\ returned' = "none"
    /\ UNCHANGED <<hour, probes, calls, pers>>
    /\ UNCHANGED <<svc, speechQueue, currentSpeech, usageStats, nextId,
                   pqTasks, stopCurrentTasks, timers, observed>>
    /\ UNCHANGED boot
    /\ fates' = FatesCancelled({engineActive[k] : k \in 1..Len(engineActive)})

\* stop() whose Tts.stop() is rejected: the catch block leaves the
\* scheduler as it is.
StopRejected ==
    /\ stopCalls < MaxStops
    /\ stopCalls' = stopCalls + 1
    /\ returned' = "none"
    /\ UNCHANGED <<hour, probes, calls, pers>>
    /\ UNCHANGED <<svc, speechQueue, currentSpeech, usageStats, nextId,
                   pqTasks, stopCurrentTasks, stopTasks, timers, engine,
                   observed>>
    /\ UNCHANGED <<boot, fates>>

\* stop() resumed after await Tts.stop().
StopResume ==
    /\ stopTasks > 0
    /\ stopTasks' = stopTasks - 1
    /\ speechQueue' = <<>>
    /\ currentSpeech' = NoItem
    /\ insertsOnly' = TRUE
    /\ returned' = "none"
    /\ UNCHANGED <<hour, probes, calls, pers>>
    /\ UNCHANGED <<svc, usageStats, nextId, pqTasks, stopCurrentTasks,
                   stopCalls, timers, engine, spy, handed, lastHanded,
                   errCalls, preempt, preempted, dropped>>
    /\ UNCHANGED boot
    /\ fates' = FatesDiscarded(
                    {speechQueue[k].id : k \in 1..Len(speechQueue)}
                    \cup (IF currentSpeech = NoItem THEN {} ELSE {currentSpeech.id}))

\* clearQueue() that drops only the head of the queue.
ClearedQueueKeepsTail(q) == IF q = <<>> THEN q ELSE Tail(q)

\* this.speechQueue = []
ClearedQueue(q) == <<>>

\* clearQueue()
ClearQueue ==
    /\ speechQueue' = ClearedQueue(speechQueue)
    /\ insertsOnly' = TRUE
    /\ returned' = "none"
    /\ UNCHANGED <<hour, probes, calls, pers>>
    /\ UNCHANGED <<svc, currentSpeech, usageStats, nextId, pqTasks, tasks,
                   timers, engine, spy, handed, lastHanded, errCalls,
                   preempt, preempted, dropped>>
    /\ UNCHANGED <<boot, fates>>

\* getQueueStatus(): { length, items }
getQueueStatus ==
    [length |-> Len(speechQueue), items |-> SpreadCopy(speechQueue).items]

\* A caller calls getQueueStatus() and keeps the result.
GetQueueStatus ==
    /\ isInitialized
    /\ snapshot' =
          [calls |-> IF snapshot.calls = 0 THEN 1 ELSE 2,
           first |-> snapshot.second,
           second |-> [length |-> getQueueStatus.length,
                       items |-> getQueueStatus.items,
                       of |-> speechQueue],
           held |-> getQueueStatus.items,
           aliased |-> SpreadCopy(speechQueue).aliased]
    /\ returned' = "none"
    /\ UNCHANGED <<svc, speechQueue, currentSpeech, usageStats, nextId,
                   pqTasks, tasks, timers, engine, observed, hour, raised,
                   saved, calls, pers>>
    /\ UNCHANGED <<boot, fates>>

\* The caller pushes an element onto the items array it holds, or shifts
\* one off it; an array that is the queue's own changes the queue.
CallerMutates(push) ==
    /\ snapshot.calls > 0
    /\ IF push THEN Len(snapshot.held) <= MaxRequests
               ELSE snapshot.held # <<>>
    /\ LET h == IF push THEN Append(snapshot.held, NoItem)
                        ELSE Tail(snapshot.held)
       IN  /\ snapshot' = [snapshot EXCEPT !.held = h]
           /\ speechQueue' = IF snapshot.aliased THEN h ELSE speechQueue
    /\ returned' = "none"
    /\ UNCHANGED <<svc, currentSpeech, usageStats, nextId, pqTasks, tasks,
                   timers, engine, observed, hour, raised, saved,
                   calls, pers>>
    /\ UNCHANGED <<boot, fates>>

\* preprocessText(raw)
PreprocessText ==
    /\ sanitized' =
          [done |-> TRUE,
           long |-> Len(BeforeTruncation(raw)) > MAX_TEXT_LENGTH,
           out |-> preprocessText(raw)]
    /\ returned' = "none"
    /\ UNCHANGED <<svc, speechQueue, currentSpeech, usageStats, nextId,
                   pqTasks, tasks, timers, engine, observed, hour, probes,
                   raw, adjusted, pers>>
    /\ UNCHANGED <<boot, fates>>

\* calculateContextualAdjustments(priority), read at the wall clock.
CalculateContextualAdjustments(priority) ==
    /\ adjusted' =
          [done |-> TRUE, priority |-> priority,
           volumeAdjustment |->
               calculateContextualAdjustments(priority, hour).volumeAdjustment,
           speedAdjustment |->
               calculateContextualAdjustments(priority, hour).speedAdjustment,
           priorityThreshold |->
               calculateContextualAdjustments(priority, hour).priorityThreshold]
    /\ returned' = "none"
    /\ UNCHANGED <<svc, speechQueue, currentSpeech, usageStats, nextId,
                   pqTasks, tasks, timers, engine, observed, hour, probes,
                   raw, sanitized, pers>>
    /\ UNCHANGED <<boot, fates>>

\* ------------------------------------ PersonalizationService, its calls

\* What no call of PersonalizationService changes.
PersFrame ==
    /\ returned' = "none"
    /\ UNCHANGED <<svc, speechQueue, currentSpeech, usageStats, nextId,
                   pqTasks, tasks, timers, engine, observed, hour, probes,
                   calls, boot, fates>>

\* initialize() up to await Promise.all([...loads]): the reads are issued;
\* `failed` are the keys whose read is rejected.
PersInitializeCall(failed) ==
    /\ persCalls < MaxPersCalls
    /\ ~persInitialized
    /\ persCalls' = persCalls + 1
    /\ persTasks' = persTasks \cup
          {PersTask(persCalls + 1, "initialize", "loaded", NoPartial,
                    [userProfile |-> loadUserProfile(storage, "userProfile" \notin failed),
                     weeklySchedule |-> loadWeeklySchedule(storage, "weeklySchedule" \notin failed),
                     settings |-> persLoadSettings(storage, "settings" \notin failed)],
                    persSeen.cleared)}
    /\ UNCHANGED <<storage, personalizationData, persInitialized, persSeen>>
    /\ PersFrame

\* initialize() resumed: personalizationData is what was loaded.
PersInitializeDone(t) ==
    /\ t \in persTasks
    /\ t.op = "initialize"
    /\ persTasks' = persTasks \ {t}
    /\ personalizationData' =
          [present |-> TRUE, userProfile |-> t.loads.userProfile,
           weeklySchedule |-> t.loads.weeklySchedule,
           settings |-> t.loads.settings]
    /\ persInitialized' = TRUE
    /\ UNCHANGED <<storage, persCalls, persSeen>>
    /\ PersFrame

\* getPersonalizationData() up to await this.initialize(), which returns
\* at once when the service is initialized and issues the reads otherwise.
GetPersonalizationDataCall(failed) ==
    /\ persCalls < MaxPersCalls
    /\ persCalls' = persCalls + 1
    /\ persTasks' = persTasks \cup
          {IF persInitialized
           THEN PersTask(persCalls + 1, "getPersonalizationData", "ready",
                         NoPartial, NoLoads, persSeen.cleared)
           ELSE PersTask(persCalls + 1, "getPersonalizationData", "loaded",
                         NoPartial,
                         [userProfile |-> loadUserProfile(storage, "userProfile" \notin failed),
                          weeklySchedule |-> loadWeeklySchedule(storage, "weeklySchedule" \notin failed),
                          settings |-> persLoadSettings(storage, "settings" \notin failed)],
                         persSeen.cleared)}
    /\ UNCHANGED <<storage, personalizationData, persInitialized, persSeen>>
    /\ PersFrame

\* getPersonalizationData(): its initialize() resumed after the loads.
GetPersonalizationDataInit(t) ==
    /\ t \in persTasks
    /\ t.op = "getPersonalizationData"
    /\ t.pc = "loaded"
    /\ persTasks' = (persTasks \ {t}) \cup {[t EXCEPT !.pc = "ready"]}
    /\ personalizationData' =
          [present |-> TRUE, userProfile |-> t.loads.userProfile,
           weeklySchedule |-> t.loads.weeklySchedule,
           settings |-> t.loads.settings]
    /\ persInitialized' = TRUE
    /\ UNCHANGED <<storage, persCalls, persSeen>>
    /\ PersFrame

\* getPersonalizationData() returns personalizationData, or the default
\* settings alone when it is null.
GetPersonalizationDataReturn(t) ==
    /\ t \in persTasks
    /\ t.op = "getPersonalizationData"
    /\ t.pc = "ready"
    /\ persTasks' = persTasks \ {t}
    /\ persSeen' =
          [persSeen EXCEPT !.data =
              [returned |-> TRUE,
               afterClear |-> t.clean /\ persSeen.cleared,
               userProfile |-> IF personalizationData.present
                               THEN personalizationData.userProfile
                               ELSE NoProfile,
               settings |-> IF personalizationData.present
                            THEN personalizationData.settings
                            ELSE persDefaultSettings]]
    /\ UNCHANGED <<storage, personalizationData, persInitialized, persCalls>>
    /\ PersFrame

\* saveUserProfile(form) up to await AsyncStorage.setItem: the profile is
\* built with setupProgress.weeklySchedule false and written; a rejected
\* write ends the call by raising.
SaveUserProfileCall(writeOk) ==
    /\ persCalls < MaxPersCalls
    /\ persCalls' = persCalls + 1
    /\ IF writeOk
       THEN /\ storage' = [storage EXCEPT !.userProfile =
                              [present |-> TRUE, weeklySchedule |-> FALSE]]
            /\ persTasks' = Dirtied(persTasks) \cup
                  {PersTask(persCalls + 1, "saveUserProfile", "stored",
                            NoPartial, NoLoads, FALSE)}
       ELSE /\ storage' = storage
            /\ persTasks' = Dirtied(persTasks)
    /\ persSeen' = [persSeen EXCEPT !.cleared = FALSE]
    /\ UNCHANGED <<personalizationData, persInitialized>>
    /\ PersFrame

\* saveUserProfile() resumed: the profile is put into personalizationData
\* and returned.
SaveUserProfileDone(t) ==
    /\ t \in persTasks
    /\ t.op = "saveUserProfile"
    /\ persTasks' = persTasks \ {t}
    /\ personalizationData' =
          IF personalizationData.present
          THEN [personalizationData EXCEPT !.userProfile =
                   [present |-> TRUE, weeklySchedule |-> FALSE]]
          ELSE personalizationData
    /\ persSeen' = [persSeen EXCEPT !.profileSaved = TRUE]
    /\ UNCHANGED <<storage, persInitialized, persCalls>>
    /\ PersFrame

\* saveWeeklySchedule(form) up to await this.getUserId(), which reads the
\* profile for its id.
SaveWeeklyScheduleCall ==
    /\ persCalls < MaxPersCalls
    /\ persCalls' = persCalls + 1
    /\ persTasks' = Dirtied(persTasks) \cup
          {PersTask(persCalls + 1, "saveWeeklySchedule", "gotUserId",
                    NoPartial, NoLoads, FALSE)}
    /\ persSeen' = [persSeen EXCEPT !.cleared = FALSE]
    /\ UNCHANGED <<storage, personalizationData, persInitialized>>
    /\ PersFrame

\* saveWeeklySchedule() resumed with the user id: the schedule is written;
\* a rejected write ends the call by raising.
SaveWeeklyScheduleStore(t, writeOk) ==
    /\ t \in persTasks
    /\ t.op = "saveWeeklySchedule"
    /\ t.pc = "gotUserId"
    /\ IF writeOk
       THEN /\ storage' = [storage EXCEPT !.weeklySchedule = TRUE]
            /\ persTasks' = (persTasks \ {t}) \cup {[t EXCEPT !.pc = "stored"]}
       ELSE /\ storage' = storage
            /\ persTasks' = persTasks \ {t}
    /\ UNCHANGED <<personalizationData, persInitialized, persCalls, persSeen>>
    /\ PersFrame

\* saveWeeklySchedule() resumed after the write: the schedule is put into
\* personalizationData, and updateSetupProgress('weeklySchedule', true)
\* runs up to await this.loadUserProfile().
SaveWeeklyScheduleProgress(t, readOk) ==
    /\ t \in persTasks
    /\ t.op = "saveWeeklySchedule"
    /\ t.pc = "stored"
    /\ personalizationData' =
          IF personalizationData.present
          THEN [personalizationData EXCEPT !.weeklySchedule = TRUE]
          ELSE personalizationData
    /\ persTasks' = (persTasks \ {t}) \cup
          {[t EXCEPT !.pc = "gotProfile",
                     !.loads.userProfile = loadUserProfile(storage, readOk)]}
    /\ UNCHANGED <<storage, persInitialized, persCalls, persSeen>>
    /\ PersFrame

\* updateSetupProgress() resumed with the profile: without a profile it
\* returns, and saveWeeklySchedule() returns the schedule; else the
\* profile is written with setupProgress.weeklySchedule true (a rejected
\* write ends the call by raising).
SaveWeeklyScheduleUpdate(t, writeOk) ==
    /\ t \in persTasks
    /\ t.op = "saveWeeklySchedule"
    /\ t.pc = "gotProfile"
    /\ IF ~t.loads.userProfile.present
       THEN /\ storage' = storage
            /\ persTasks' = persTasks \ {t}
            /\ persSeen' = [persSeen EXCEPT !.scheduleSaved = TRUE]
       ELSE IF writeOk
       THEN /\ storage' = [storage EXCEPT !.userProfile =
                              [t.loads.userProfile EXCEPT !.weeklySchedule = TRUE]]
            /\ persTasks' = (persTasks \ {t}) \cup
                  {[t EXCEPT !.pc = "progressStored"]}
            /\ persSeen' = persSeen
       ELSE /\ storage' = storage
            /\ persTasks' = persTasks \ {t}
            /\ persSeen' = persSeen
    /\ UNCHANGED <<personalizationData, persInitialized, persCalls>>
    /\ PersFrame

\* updateSetupProgress() resumed after the write: the profile is put into
\* personalizationData; saveWeeklySchedule() returns the schedule.
SaveWeeklyScheduleDone(t) ==
    /\ t \in persTasks
    /\ t.op = "saveWeeklySchedule"
    /\ t.pc = "progressStored"
    /\ persTasks' = persTasks \ {t}
    /\ personalizationData' =
          IF personalizationData.present
          THEN [personalizationData EXCEPT !.userProfile =
                   [t.loads.userProfile EXCEPT !.weeklySchedule = TRUE]]
          ELSE personalizationData
    /\ persSeen' = [persSeen EXCEPT !.scheduleSaved = TRUE]
    /\ UNCHANGED <<storage, persInitialized, persCalls>>
    /\ PersFrame

\* PersonalizationService.saveSettings(partial) up to await
\* this.loadSettings().
PersSaveSettingsCall(partial, readOk) ==
    /\ persCalls < MaxPersCalls
    /\ persCalls' = persCalls + 1
    /\ persTasks' = Dirtied(persTasks) \cup
          {PersTask(persCalls + 1, "saveSettings", "loaded", partial,
                    [NoLoads EXCEPT !.settings = persLoadSettings(storage, readOk)],
                    FALSE)}
    /\ persSeen' = [persSeen EXCEPT !.cleared = FALSE]
    /\ UNCHANGED <<storage, personalizationData, persInitialized>>
    /\ PersFrame

\* PersonalizationService.saveSettings() resumed with the settings read:
\* the merged settings are written; a rejected write ends the call by
\* raising.
PersSaveSettingsStore(t, writeOk) ==
    /\ t \in persTasks
    /\ t.op = "saveSettings"
    /\ t.pc = "loaded"
    /\ IF writeOk
       THEN /\ storage' = [storage EXCEPT !.settings =
                              [present |-> TRUE,
                               value |-> persMergeSettings(t.loads.settings, t.partial)]]
            /\ persTasks' = (persTasks \ {t}) \cup {[t EXCEPT !.pc = "stored"]}
       ELSE /\ storage' = storage
            /\ persTasks' = persTasks \ {t}
    /\ UNCHANGED <<personalizationData, persInitialized, persCalls, persSeen>>
    /\ PersFrame

\* PersonalizationService.saveSettings() resumed after the write: the
\* merged settings are put into personalizationData and returned.
PersSaveSettingsDone(t) ==
    /\ t \in persTasks
    /\ t.op = "saveSettings"
    /\ t.pc = "stored"
    /\ persTasks' = persTasks \ {t}
    /\ personalizationData' =
          IF personalizationData.present
          THEN [personalizationData EXCEPT !.settings =
                   persMergeSettings(t.loads.settings, t.partial)]
          ELSE personalizationData
    /\ UNCHANGED <<storage, persInitialized, persCalls, persSeen>>
    /\ PersFrame

\* getSetupStatus() up to await this.loadUserProfile().
GetSetupStatusCall(readOk) ==
    /\ persCalls < MaxPersCalls
    /\ persCalls' = persCalls + 1
    /\ persTasks' = persTasks \cup
          {PersTask(persCalls + 1, "getSetupStatus", "gotProfile", NoPartial,
                    [NoLoads EXCEPT !.userProfile = loadUserProfile(storage, readOk)],
                    persSeen.profileSaved /\ persSeen.scheduleSaved)}
    /\ UNCHANGED <<storage, personalizationData, persInitialized, persSeen>>
    /\ PersFrame

\* getSetupStatus() resumed with the profile: the schedule is read, and
\* the status computed of the two is returned.
GetSetupStatusReturn(t, readOk) ==
    /\ t \in persTasks
    /\ t.op = "getSetupStatus"
    /\ persTasks' = persTasks \ {t}
    /\ persSeen' =
          [persSeen EXCEPT !.status =
              [returned |-> /\ t.clean
                            /\ persSeen.profileSaved
                            /\ persSeen.scheduleSaved,
               scheduleMissing |->
                   ScheduleMissing(t.loads.userProfile,
                                   loadWeeklySchedule(storage, readOk))]]
    /\ UNCHANGED <<storage, personalizationData, persInitialized, persCalls>>
    /\ PersFrame

\* clearAllData() up to await Promise.all([...removeItem]): the five
\* removals are issued; `failed` are the keys whose removal is rejected,
\* and any rejection ends the call by raising.
ClearAllDataCall(failed) ==
    /\ persCalls < MaxPersCalls
    /\ persCalls' = persCalls + 1
    /\ storage' = [k \in DOMAIN storage |->
                     IF k \in failed THEN storage[k] ELSE EmptyStorage[k]]
    /\ persTasks' =
          IF failed = {} THEN persTasks \cup
              {PersTask(persCalls + 1, "clearAllData", "removed", NoPartial,
                        NoLoads, \A u \in persTasks : u.op \notin SaveOps)}
          ELSE persTasks
    /\ persSeen' = [persSeen EXCEPT !.profileSaved = FALSE,
                                    !.scheduleSaved = FALSE,
                                    !.cleared = FALSE]
    /\ UNCHANGED <<personalizationData, persInitialized>>
    /\ PersFrame

\* clearAllData() resumed after the removals: personalizationData = null,
\* isInitialized = false.
ClearAllDataDone(t) ==
    /\ t \in persTasks
    /\ t.op = "clearAllData"
    /\ persTasks' = persTasks \ {t}
    /\ personalizationData' = NoData
    /\ persInitialized' = FALSE
    /\ persSeen' =
          [persSeen EXCEPT !.cleared =
              t.clean /\ \A u \in persTasks : u.op \notin SaveOps]
    /\ UNCHANGED <<storage, persCalls>>
    /\ PersFrame

\* saveSettings(partial): the merged settings are assigned, persisted and
\* applied to the engine.
SaveSettings(partial) ==
    /\ isInitialized
    /\ settings' = MergeSettings(settings, partial)
    /\ saved' = IF spy
                THEN [done |-> TRUE, prev |-> settings, partial |-> partial]
                ELSE saved
    /\ returned' = "none"
    /\ UNCHANGED <<hour, raised, snapshot, calls, pers>>
    /\ UNCHANGED <<isInitialized, speechQueue, currentSpeech, usageStats,
                   nextId, pqTasks, tasks, timers, engine, observed>>
    /\ UNCHANGED <<boot, fates>>

Next ==
    \/ \E stored \in StoredEnabled, applyOk \in BOOLEAN :
          Initialize(stored, applyOk)
    \/ SpeakDisabled
    \/ \E text \in Texts : SpeakEmpty(text)
    \/ \E text \in Texts, priority \in Priorities, stopOk \in BOOLEAN,
          storageOk \in BOOLEAN :
          SpeakAccepted(text, priority, stopOk, storageOk)
    \/ \E task \in BagToSet(pqTasks), storageOk \in BOOLEAN :
          PqSpeak(task, storageOk)
    \/ \E task \in BagToSet(pqTasks), storageOk \in BOOLEAN :
          PqReject(task, storageOk)
    \/ EngineFinish
    \/ EngineError
    \/ OnFinishOrCancel
    \/ OnError
    \/ TimerFire
    \/ StopCurrentResume
    \/ Stop
    \/ StopRejected
    \/ StopResume
    \/ ClearQueue
    \/ \E partial \in PartialsEnabled : SaveSettings(partial)

Spec == Init /\ [][Next]_vars

\* ------------------------------------------------- scenario specifications

\* The service after initialize() with empty storage, the counting spies
\* installed.
InitScenario ==
    /\ isInitialized = TRUE
    /\ settings = getDefaultSettings
    /\ speechQueue = <<>>
    /\ currentSpeech = NoItem
    /\ usageStats = 0
    /\ nextId = 1
    /\ pqTasks = EmptyBag
    /\ stopCurrentTasks = 0
    /\ stopTasks = 0
    /\ stopCalls = 0
    /\ timers = 0
    /\ engineActive = <<>>
    /\ events = <<>>
    /\ returned = "none"
    /\ hour \in Hours
    /\ spy = TRUE
    /\ handed = [i \in Ids |-> 0]
    /\ lastHanded = 0
    /\ errCalls = [i \in Ids |-> 0]
    /\ preempt = [want |-> 0, got |-> 0]
    /\ preempted = {}
    /\ dropped = {}
    /\ insertsOnly = TRUE
    /\ raised = FALSE
    /\ saved = NoSave
    /\ snapshot = NoSnapshot
    /\ raw = <<>>
    /\ sanitized = NoSanitized
    /\ adjusted = NoAdjusted
    /\ InitPersonalization
    /\ listeners = 1
    /\ initTasks = EmptyBag
    /\ fates = NoFates

\* Scenario B: only Low requests, the engine finishes every utterance.
NextLowFinish ==
    \/ \E text \in Texts : SpeakEmpty(text)
    \/ \E text \in Texts : SpeakAccepted(text, "low", TRUE, TRUE)
    \/ \E task \in BagToSet(pqTasks) : PqSpeak(task, TRUE)
    \/ EngineFinish
    \/ OnFinishOrCancel
    \/ TimerFire

SpecLowFinish == InitScenario /\ [][NextLowFinish]_vars

\* Scenario C: non-urgent requests, the engine fails every utterance.
NextAlwaysError ==
    \/ \E text \in Texts, priority \in Priorities \ {"urgent"} :
          SpeakAccepted(text, priority, TRUE, TRUE)
    \/ \E task \in BagToSet(pqTasks) : PqSpeak(task, TRUE)
    \/ EngineError
    \/ OnError
    \/ TimerFire

SpecAlwaysError == InitScenario /\ [][NextAlwaysError]_vars

\* Non-urgent requests, the engine finishes every utterance, a write of
\* the usage statistics to storage may be rejected.
NextStorageFails ==
    \/ \E text \in Texts, priority \in Priorities \ {"urgent"},
          storageOk \in BOOLEAN :
          SpeakAccepted(text, priority, TRUE, storageOk)
    \/ \E task \in BagToSet(pqTasks), storageOk \in BOOLEAN :
          PqSpeak(task, storageOk)
    \/ EngineFinish
    \/ OnFinishOrCancel
    \/ TimerFire

SpecStorageFails == InitScenario /\ [][NextStorageFails]_vars

\* Requests below Urgent, the engine finishes every utterance, a caller
\* takes queue snapshots and changes the arrays it was given.
NextSnapshot ==
    \/ \E text \in Texts, priority \in Priorities \ {"urgent"} :
          SpeakAccepted(text, priority, TRUE, TRUE)
    \/ \E task \in BagToSet(pqTasks) : PqSpeak(task, TRUE)
    \/ EngineFinish
    \/ OnFinishOrCancel
    \/ TimerFire
    \/ GetQueueStatus
    \/ \E push \in BOOLEAN : CallerMutates(push)

SpecSnapshot == InitScenario /\ [][NextSnapshot]_vars

\* Requests of a normal and of the Urgent priority and one stop() call,
\* with an engine that takes every call and finishes every utterance.
NextCancel ==
    \/ Initialize(getDefaultSettings, TRUE)
    \/ \E priority \in {"medium", "urgent"} :
          SpeakAccepted(<<"a">>, priority, TRUE, TRUE)
    \/ \E task \in BagToSet(pqTasks) : PqSpeak(task, TRUE)
    \/ EngineFinish
    \/ OnFinishOrCancel
    \/ TimerFire
    \/ StopCurrentResume
    \/ Stop
    \/ StopResume

SpecCancel == Init /\ [][NextCancel]_vars

\* Requests arrive until a stop() call has completed; the engine takes
\* every call and finishes every utterance.
NextStop ==
    \/ Initialize(getDefaultSettings, TRUE)
    \/ /\ stopCalls = 0 \/ stopTasks > 0
       /\ \E priority \in {"medium", "urgent"} :
             SpeakAccepted(<<"a">>, priority, TRUE, TRUE)
    \/ \E task \in BagToSet(pqTasks) : PqSpeak(task, TRUE)
    \/ EngineFinish
    \/ OnFinishOrCancel
    \/ TimerFire
    \/ StopCurrentResume
    \/ Stop
    \/ StopResume

SpecStop == Init /\ [][NextStop]_vars

\* The service after initialize(), with the profile and the settings an
\* earlier run of the application stored for PersonalizationService.
InitProfile ==
    /\ isInitialized = TRUE
    /\ settings = getDefaultSettings
    /\ speechQueue = <<>>
    /\ currentSpeech = NoItem
    /\ usageStats = 0
    /\ nextId = 1
    /\ pqTasks = EmptyBag
    /\ stopCurrentTasks = 0
    /\ stopTasks = 0
    /\ stopCalls = 0
    /\ timers = 0
    /\ engineActive = <<>>
    /\ events = <<>>
    /\ returned = "none"
    /\ hour \in Hours
    /\ spy = FALSE
    /\ handed = [i \in Ids |-> 0]
    /\ lastHanded = 0
    /\ errCalls = [i \in Ids |-> 0]
    /\ preempt = [want |-> 0, got |-> 0]
    /\ preempted = {}
    /\ dropped = {}
    /\ insertsOnly = TRUE
    /\ raised = FALSE
    /\ saved = NoSave
    /\ snapshot = NoSnapshot
    /\ raw = <<>>
    /\ sanitized = NoSanitized
    /\ adjusted = NoAdjusted
    /\ storage = EarlierStorage
    /\ personalizationData = NoData
    /\ persInitialized = FALSE
    /\ persTasks = {}
    /\ persCalls = 0
    /\ persSeen = NothingSeen
    /\ listeners = 1
    /\ initTasks = EmptyBag
    /\ fates = NoFates

\* saveSettings({volume: v})
PartialsVolume ==
    {[fields |-> {"volume"}, values |-> [getDefaultSettings EXCEPT !.volume = v]] :
        v \in {5, 8}}

\* A user with a stored profile: requests of every priority are played by
\* an engine that finishes every utterance, and the volume is saved.
NextProfile ==
    \/ \E priority \in Priorities : SpeakAccepted(<<"a">>, priority, TRUE, TRUE)
    \/ \E task \in BagToSet(pqTasks) : PqSpeak(task, TRUE)
    \/ EngineFinish
    \/ OnFinishOrCancel
    \/ TimerFire
    \/ StopCurrentResume
    \/ \E partial \in PartialsVolume : SaveSettings(partial)

SpecProfile == InitProfile /\ [][NextProfile]_vars

\* Requests below Urgent whose callbacks may throw; the engine finishes or
\* fails every utterance.
NextThrow ==
    \/ \E priority \in Priorities \ {"urgent"} :
          SpeakAccepted(<<"a">>, priority, TRUE, TRUE)
    \/ \E task \in BagToSet(pqTasks) : PqSpeak(task, TRUE)
    \/ EngineFinish
    \/ EngineError
    \/ OnFinishOrCancel
    \/ OnFinishOrCancelThrows
    \/ OnError
    \/ OnErrorThrows
    \/ TimerFire

SpecThrow == InitScenario /\ [][NextThrow]_vars

\* The service after initialize() with empty storage, the fates of the
\* items observed.
InitFates ==
    /\ isInitialized = TRUE
    /\ settings = getDefaultSettings
    /\ speechQueue = <<>>
    /\ currentSpeech = NoItem
    /\ usageStats = 0
    /\ nextId = 1
    /\ pqTasks = EmptyBag
    /\ stopCurrentTasks = 0
    /\ stopTasks = 0
    /\ stopCalls = 0
    /\ timers = 0
    /\ engineActive = <<>>
    /\ events = <<>>
    /\ returned = "none"
    /\ hour = 12
    /\ spy = FALSE
    /\ handed = [i \in Ids |-> 0]
    /\ lastHanded = 0
    /\ errCalls = [i \in Ids |-> 0]
    /\ preempt = [want |-> 0, got |-> 0]
    /\ preempted = {}
    /\ dropped = {}
    /\ insertsOnly = TRUE
    /\ raised = FALSE
    /\ saved = NoSave
    /\ snapshot = NoSnapshot
    /\ raw = <<>>
    /\ sanitized = NoSanitized
    /\ adjusted = NoAdjusted
    /\ InitPersonalization
    /\ listeners = 1
    /\ initTasks = EmptyBag
    /\ fates = [NoFates EXCEPT !.on = TRUE]

\* Requests of a normal and of the Urgent priority and one stop() call;
\* the engine takes every call and ends every utterance, by finishing or
\* by failing it.
NextFates ==
    \/ \E priority \in {"medium", "urgent"} :
          SpeakAccepted(<<"a">>, priority, TRUE, TRUE)
    \/ \E task \in BagToSet(pqTasks) : PqSpeak(task, TRUE)
    \/ EngineFinish
    \/ EngineError
    \/ OnFinishOrCancel
    \/ OnError
    \/ TimerFire
    \/ StopCurrentResume
    \/ Stop
    \/ StopResume

SpecFates == InitFates /\ [][NextFates]_vars

\* The application starts: initialize() calls that overlap, their reads of
\* storage succeeding or not, then requests played to the end.
NextBoot ==
    \/ \E settingsOk \in BOOLEAN, statsOk \in BOOLEAN :
          InitializeCall(settingsOk, statsOk)
    \/ \E t \in BagToSet(initTasks) : InitializeLoaded(t)
    \/ \E t \in BagToSet(initTasks) : InitializeDone(t, TRUE)
    \/ SpeakAccepted(<<"a">>, "medium", TRUE, TRUE)
    \/ \E task \in BagToSet(pqTasks) : PqSpeak(task, TRUE)
    \/ EngineFinish
    \/ OnFinishOrCancel
    \/ TimerFire

SpecBoot == Init /\ [][NextBoot]_vars

\* The service after initialize(), at any hour of the day.
InitAdjust ==
    /\ isInitialized = TRUE
    /\ settings = getDefaultSettings
    /\ speechQueue = <<>>
    /\ currentSpeech = NoItem
    /\ usageStats = 0
    /\ nextId = 1
    /\ pqTasks = EmptyBag
    /\ stopCurrentTasks = 0
    /\ stopTasks = 0
    /\ stopCalls = 0
    /\ timers = 0
    /\ engineActive = <<>>
    /\ events = <<>>
    /\ returned = "none"
    /\ hour \in HoursOfDay
    /\ spy = FALSE
    /\ handed = [i \in Ids |-> 0]
    /\ lastHanded = 0
    /\ errCalls = [i \in Ids |-> 0]
    /\ preempt = [want |-> 0, got |-> 0]
    /\ preempted = {}
    /\ dropped = {}
    /\ insertsOnly = TRUE
    /\ raised = FALSE
    /\ saved = NoSave
    /\ snapshot = NoSnapshot
    /\ raw = <<>>
    /\ sanitized = NoSanitized
    /\ adjusted = NoAdjusted
    /\ InitPersonalization
    /\ listeners = 1
    /\ initTasks = EmptyBag
    /\ fates = NoFates

\* The context adapter applied to every priority at every hour.
NextAdjust == \E priority \in Priorities : CalculateContextualAdjustments(priority)

SpecAdjust == InitAdjust /\ [][NextAdjust]_vars

\* The service after initialize(), a raw text at hand.
InitSanitize ==
    /\ isInitialized = TRUE
    /\ settings = getDefaultSettings
    /\ speechQueue = <<>>
    /\ currentSpeech = NoItem
    /\ usageStats = 0
    /\ nextId = 1
    /\ pqTasks = EmptyBag
    /\ stopCurrentTasks = 0
    /\ stopTasks = 0
    /\ stopCalls = 0
    /\ timers = 0
    /\ engineActive = <<>>
    /\ events = <<>>
    /\ returned = "none"
    /\ hour = 12
    /\ spy = FALSE
    /\ handed = [i \in Ids |-> 0]
    /\ lastHanded = 0
    /\ errCalls = [i \in Ids |-> 0]
    /\ preempt = [want |-> 0, got |-> 0]
    /\ preempted = {}
    /\ dropped = {}
    /\ insertsOnly = TRUE
    /\ raised = FALSE
    /\ saved = NoSave
    /\ snapshot = NoSnapshot
    /\ raw \in RawTexts
    /\ sanitized = NoSanitized
    /\ adjusted = NoAdjusted
    /\ InitPersonalization
    /\ listeners = 1
    /\ initTasks = EmptyBag
    /\ fates = NoFates

\* The sanitizer applied to the raw text.
NextSanitize == PreprocessText

SpecSanitize == InitSanitize /\ [][NextSanitize]_vars

\* The scheduler after initialize(); the personalization service as
\* constructed, with an empty storage or with what an earlier run of the
\* application has stored.
InitPers ==
    /\ isInitialized = TRUE
    /\ settings = getDefaultSettings
    /\ speechQueue = <<>>
    /\ currentSpeech = NoItem
    /\ usageStats = 0
    /\ nextId = 1
    /\ pqTasks = EmptyBag
    /\ stopCurrentTasks = 0
    /\ stopTasks = 0
    /\ stopCalls = 0
    /\ timers = 0
    /\ engineActive = <<>>
    /\ events = <<>>
    /\ returned = "none"
    /\ hour = 12
    /\ spy = FALSE
    /\ handed = [i \in Ids |-> 0]
    /\ lastHanded = 0
    /\ errCalls = [i \in Ids |-> 0]
    /\ preempt = [want |-> 0, got |-> 0]
    /\ preempted = {}
    /\ dropped = {}
    /\ insertsOnly = TRUE
    /\ raised = FALSE
    /\ saved = NoSave
    /\ snapshot = NoSnapshot
    /\ raw = <<>>
    /\ sanitized = NoSanitized
    /\ adjusted = NoAdjusted
    /\ storage \in {EmptyStorage, EarlierStorage}
    /\ personalizationData = NoData
    /\ persInitialized = FALSE
    /\ persTasks = {}
    /\ persCalls = 0
    /\ persSeen = NothingSeen
    /\ listeners = 1
    /\ initTasks = EmptyBag
    /\ fates = NoFates

\* The keys whose reads initialize() depends on in the model.
LoadedKeys == {"userProfile", "weeklySchedule", "settings"}

\* The calls of PersonalizationService in any interleaving.
NextPers ==
    \/ \E failed \in SUBSET LoadedKeys : PersInitializeCall(failed)
    \/ \E t \in persTasks : PersInitializeDone(t)
    \/ \E failed \in SUBSET LoadedKeys : GetPersonalizationDataCall(failed)
    \/ \E t \in persTasks : GetPersonalizationDataInit(t)
    \/ \E t \in persTasks : GetPersonalizationDataReturn(t)
    \/ \E writeOk \in BOOLEAN : SaveUserProfileCall(writeOk)
    \/ \E t \in persTasks : SaveUserProfileDone(t)
    \/ SaveWeeklyScheduleCall
    \/ \E t \in persTasks, writeOk \in BOOLEAN : SaveWeeklyScheduleStore(t, writeOk)
    \/ \E t \in persTasks, readOk \in BOOLEAN : SaveWeeklyScheduleProgress(t, readOk)
    \/ \E t \in persTasks, writeOk \in BOOLEAN : SaveWeeklyScheduleUpdate(t, writeOk)
    \/ \E t \in persTasks : SaveWeeklyScheduleDone(t)
    \/ \E partial \in PersPartials, readOk \in BOOLEAN :
          PersSaveSettingsCall(partial, readOk)
    \/ \E t \in persTasks, writeOk \in BOOLEAN : PersSaveSettingsStore(t, writeOk)
    \/ \E t \in persTasks : PersSaveSettingsDone(t)
    \/ \E readOk \in BOOLEAN : GetSetupStatusCall(readOk)
    \/ \E t \in persTasks, readOk \in BOOLEAN : GetSetupStatusReturn(t, readOk)
    \/ \E failed \in SUBSET StorageKeys : ClearAllDataCall(failed)
    \/ \E t \in persTasks : ClearAllDataDone(t)

SpecPers == InitPers /\ [][NextPers]_vars

\* The calls of PersonalizationService in any interleaving, with a storage
\* that rejects no read, write or removal.
NextPersReliable ==
    \/ PersInitializeCall({})
    \/ \E t \in persTasks : PersInitializeDone(t)
    \/ GetPersonalizationDataCall({})
    \/ \E t \in persTasks : GetPersonalizationDataInit(t)
    \/ \E t \in persTasks : GetPersonalizationDataReturn(t)
    \/ SaveUserProfileCall(TRUE)
    \/ \E t \in persTasks : SaveUserProfileDone(t)
    \/ SaveWeeklyScheduleCall
    \/ \E t \in persTasks : SaveWeeklyScheduleStore(t, TRUE)
    \/ \E t \in persTasks : SaveWeeklyScheduleProgress(t, TRUE)
    \/ \E t \in persTasks : SaveWeeklyScheduleUpdate(t, TRUE)
    \/ \E t \in persTasks : SaveWeeklyScheduleDone(t)
    \/ \E partial \in PersPartials : PersSaveSettingsCall(partial, TRUE)
    \/ \E t \in persTasks : PersSaveSettingsStore(t, TRUE)
    \/ \E t \in persTasks : PersSaveSettingsDone(t)
    \/ GetSetupStatusCall(TRUE)
    \/ \E t \in persTasks : GetSetupStatusReturn(t, TRUE)
    \/ ClearAllDataCall({})
    \/ \E t \in persTasks : ClearAllDataDone(t)

SpecPersReliable == InitPers /\ [][NextPersReliable]_vars

\* The service as constructed, the observation of saveSettings() installed.
InitSettings ==
    /\ isInitialized = FALSE
    /\ settings = NoSettings
    /\ speechQueue = <<>>
    /\ currentSpeech = NoItem
    /\ usageStats = 0
    /\ nextId = 1
    /\ pqTasks = EmptyBag
    /\ stopCurrentTasks = 0
    /\ stopTasks = 0
    /\ stopCalls = 0
    /\ timers = 0
    /\ engineActive = <<>>
    /\ events = <<>>
    /\ returned = "none"
    /\ hour \in Hours
    /\ spy = TRUE
    /\ handed = [i \in Ids |-> 0]
    /\ lastHanded = 0
    /\ errCalls = [i \in Ids |-> 0]
    /\ preempt = [want |-> 0, got |-> 0]
    /\ preempted = {}
    /\ dropped = {}
    /\ insertsOnly = TRUE
    /\ raised = FALSE
    /\ saved = NoSave
    /\ snapshot = NoSnapshot
    /\ raw = <<>>
    /\ sanitized = NoSanitized
    /\ adjusted = NoAdjusted
    /\ InitPersonalization
    /\ listeners = 0
    /\ initTasks = EmptyBag
    /\ fates = NoFates

\* Settings management alone: initialize() over any stored settings, then
\* saveSettings() calls.
NextSettings ==
    \/ \E stored \in StoredSettings, applyOk \in BOOLEAN :
          Initialize(stored, applyOk)
    \/ \E partial \in Partials : SaveSettings(partial)

SpecSettings == InitSettings /\ [][NextSettings]_vars

\* ---------------------------------------------------------- properties

Level(item) == PRIORITY_LEVELS[item.priority]

QueueIds == {speechQueue[k].id : k \in 1..Len(speechQueue)}

EngineIds == {engineActive[k] : k \in 1..Len(engineActive)}

\* C1: in every reachable state the pending queue is ordered from head to
\* tail by non-increasing priority.
QueueSortedByPriority ==
    \A i, j \in 1..Len(speechQueue) :
        i < j => Level(speechQueue[i]) >= Level(speechQueue[j])

\* C2: a queue built by accepted insertions alone, no removal in between,
\* is ordered by non-increasing priority and, within one priority (Urgent
\* included), by the order in which the insertions were made; successive
\* removals of the head return the items in that order.
InsertionsPopInPriorityFifoOrder ==
    insertsOnly =>
        \A i, j \in 1..Len(speechQueue) :
            i < j =>
                /\ Level(speechQueue[i]) >= Level(speechQueue[j])
                /\ Level(speechQueue[i]) = Level(speechQueue[j])
                      => speechQueue[i].id < speechQueue[j].id

\* C3: after speak() accepted an Urgent request B while a non-Urgent item
\* was active and the cancel was issued, the next utterance handed to the
\* engine is B.
UrgentIsNextAfterPreemption ==
    preempt.got \in {0, preempt.want}

\* C4: an item whose playback was cancelled by Urgent preemption is never
\* handed to the engine again and never re-enters the pending queue.
PreemptedNeverReplayed ==
    \A id \in preempted : id \notin QueueIds /\ id \notin EngineIds

\* C8: the engine never holds an utterance handed over while an earlier one
\* has not yet produced its terminal event.
OneUtteranceAtATime ==
    Len(engineActive) <= 1

\* C9: the active slot is non-null if and only if the engine holds an
\* utterance in progress, and that utterance is the slot's item.
SlotIffEngineBusy ==
    /\ currentSpeech # NoItem <=> engineActive # <<>>
    /\ currentSpeech # NoItem => engineActive = <<currentSpeech.id>>

\* C5: every pending or active item has retryCount <= 3, and an item
\* dropped at the retry cap is never in the pending queue again.
RetryCountBounded ==
    /\ \A k \in 1..Len(speechQueue) : speechQueue[k].retryCount <= MAX_RETRIES
    /\ currentSpeech.retryCount <= MAX_RETRIES
    /\ dropped \cap QueueIds = {}

\* C5 witness: an item was dropped at the cap while other work is pending.
SomeItemDropped ==
    dropped # {} /\ speechQueue # <<>>

\* C6: an item whose every attempt ends in an engine error, once dropped,
\* was attempted exactly 4 times and had onError invoked exactly 4 times.
DroppedAfterFourAttempts ==
    \A id \in dropped : handed[id] = 4 /\ errCalls[id] = 4

Quiescent ==
    /\ pqTasks = EmptyBag
    /\ engineActive = <<>>
    /\ events = <<>>
    /\ timers = 0

\* C7: with Low requests only and an engine that finishes every utterance,
\* the engine is handed exactly the accepted requests, each once, in
\* submission order, each only after the finish event of the previous one
\* was handled.
LowRequestsPlayInOrder ==
    /\ \A id \in Ids : handed[id] = IF id <= lastHanded THEN 1 ELSE 0
    /\ Len(engineActive) <= 1
    /\ engineActive # <<>> => events = <<>>
    /\ Quiescent => lastHanded = nextId - 1 /\ speechQueue = <<>>

\* C7 witness: three Low requests were played to the end.
ThreeLowPlayed ==
    Quiescent /\ lastHanded = 3 /\ currentSpeech = NoItem

\* C10: a speak() call made while settings.enabled is false returns the
\* disabled result and changes neither the queue, the slot, the suspended
\* processQueue() invocations nor the engine.
DisabledSpeakIsNoOp ==
    [][(returned' # "none" /\ ~settings.enabled)
          => /\ returned' = "disabled"
             /\ UNCHANGED <<speechQueue, currentSpeech, pqTasks, nextId,
                            engineActive, events, stopCurrentTasks>>]_vars

\* C10 witness: speak() returned the disabled result while an item was
\* active and another pending.
DisabledSpeakWhileBusy ==
    returned = "disabled" /\ currentSpeech # NoItem /\ speechQueue # <<>>

\* C11: no utterance is handed to the engine while settings.enabled is
\* false, requests accepted before the switch-off and retries included.
NoHandoverWhileDisabled ==
    [][Len(engineActive') > Len(engineActive) => settings.enabled]_vars

\* C12: a request whose text is empty after sanitization and trimming gets
\* the empty result and leaves queue, slot, statistics and engine as they
\* are; no pending or active item ever has an empty text.
EmptyTextRejected ==
    /\ [](/\ \A k \in 1..Len(speechQueue) : Trim(speechQueue[k].text) # <<>>
          /\ currentSpeech # NoItem => Trim(currentSpeech.text) # <<>>)
    /\ [][returned' = "empty"
             => UNCHANGED <<speechQueue, currentSpeech, usageStats, nextId,
                            pqTasks, engineActive, events>>]_vars

\* C12 witness: speak() returned the empty result while an item was active
\* and another pending.
EmptySpeakWhileBusy ==
    returned = "empty" /\ currentSpeech # NoItem /\ speechQueue # <<>>

\* C13: a request whose priority is strictly below the suppression
\* threshold of the current hour never enters the pending queue or the
\* active slot.
BelowThresholdSuppressed ==
    LET floor == PRIORITY_LEVELS[priorityThreshold(hour)]
    IN  /\ \A k \in 1..Len(speechQueue) : Level(speechQueue[k]) >= floor
        /\ currentSpeech # NoItem => Level(currentSpeech) >= floor

\* speak() calls accepted and still waiting for their processQueue().
SpeakCallsInFlight ==
    LET waiting == {t \in BagToSet(pqTasks) : t.fromSpeak}
    IN  BagCardinality([t \in waiting |-> CopiesIn(t, pqTasks)])

SpeakNeverRaises ==
    ~raised

\* getStatus(), once initialize() is done.
getStatus ==
    [isInitialized |-> isInitialized,
     isSpeaking |-> currentSpeech # NoItem,
     currentSettings |-> IF settings = NoSettings
                         THEN getDefaultSettings ELSE settings,
     queueLength |-> Len(speechQueue)]

SpeechRateFixed ==
    isInitialized => settings.speechRate = FIXED_RATE

\* C18: when stop() completes, by its normal end or through its catch
\* block, the pending queue is empty and the active slot is null.
StopLeavesIdle ==
    [][(StopResume \/ StopRejected)
          => (speechQueue' = <<>> /\ currentSpeech' = NoItem)]_vars

\* C19: getQueueStatus() changes no scheduler state and returns the queue's
\* length and items; two calls with the same queue return equal snapshots;
\* pushing onto or shifting off a returned items array leaves the pending
\* queue as it is.
QueueStatusIsSnapshot ==
    /\ [](/\ snapshot.calls > 0 =>
                /\ snapshot.second.items = snapshot.second.of
                /\ snapshot.second.length = Len(snapshot.second.of)
          /\ (snapshot.calls = 2 /\ snapshot.first.of = snapshot.second.of) =>
                /\ snapshot.first.length = snapshot.second.length
                /\ snapshot.first.items = snapshot.second.items)
    /\ [][GetQueueStatus
             => UNCHANGED <<svc, speechQueue, currentSpeech, usageStats,
                            nextId, pqTasks, tasks, timers, engine>>]_vars
    /\ [][(\E push \in BOOLEAN : CallerMutates(push))
             => speechQueue' = speechQueue]_vars

\* C19 witness: two snapshots of the same two-item queue were taken and
\* the caller changed the array of the second; the queue is as it was.
SnapshotChangedByCaller ==
    /\ snapshot.calls = 2
    /\ snapshot.first.of = snapshot.second.of
    /\ Len(snapshot.second.items) = 2
    /\ snapshot.held # snapshot.second.items
    /\ speechQueue = snapshot.second.of

\* C20: clearQueue() empties the pending queue and changes nothing else:
\* the active slot, the utterance on the engine and the events it has
\* emitted, the settings, the usage statistics, the suspended
\* processQueue() invocations and the timers are as before, so that the
\* active item is still the engine's and ends by its own event.
ClearQueueFrame ==
    [][ClearQueue
         => /\ speechQueue' = <<>>
            /\ UNCHANGED <<svc, currentSpeech, usageStats, nextId, pqTasks,
                           tasks, timers, engine>>]_vars

\* C20 witness: the first request is in the active slot and on the engine,
\* never retried; a second request was accepted after it and stop() was
\* never called, yet nothing is pending: clearQueue() has discarded the
\* second request and left the first one playing.
ClearedWhilePlaying ==
    /\ currentSpeech # NoItem
    /\ currentSpeech.id = 1
    /\ currentSpeech.retryCount = 0
    /\ engineActive = <<1>>
    /\ events = <<>>
    /\ nextId = 3
    /\ speechQueue = <<>>
    /\ pqTasks = EmptyBag
    /\ stopCalls = 0
    /\ stopCurrentTasks = 0

\* C21: for every priority and every hour of the day the volume
\* adjustment the context adapter computes lies within [-0.3, +0.3]
\* (tenths: -3..3).
VolumeAdjustmentClamped ==
    adjusted.done =>
        (adjusted.volumeAdjustment >= 0 - 3 /\ adjusted.volumeAdjustment <= 3)

\* The reference rule of the context adapter, in tenths: the night rule
\* plus the priority rule, clamped to [-3, 3].
ReferenceVolume(priority, h) ==
    LET night == IF h < 7 \/ h > 22 THEN 0 - 3 ELSE 0
        byPriority == [urgent |-> 2, high |-> 1, medium |-> 0, low |-> 0 - 1]
        sum == night + byPriority[priority]
    IN  IF sum < 0 - 3 THEN 0 - 3 ELSE IF sum > 3 THEN 3 ELSE sum

\* C22: for every priority and every hour the computed tuning equals the
\* reference rule: the clamped volume adjustment, the threshold medium at
\* night and low otherwise, the speed adjustment 0.
TuningEqualsReference ==
    adjusted.done =>
        /\ adjusted.volumeAdjustment = ReferenceVolume(adjusted.priority, hour)
        /\ adjusted.priorityThreshold =
              (IF hour < 7 \/ hour > 22 THEN "medium" ELSE "low")
        /\ adjusted.speedAdjustment = 0

\* C23: the sanitized text has at most 200 characters, and a text that
\* was longer than 200 characters before the truncation ends with "...".
SanitizedWithinLimit ==
    sanitized.done =>
        /\ Len(sanitized.out) <= MAX_TEXT_LENGTH
        /\ sanitized.long =>
              /\ Len(sanitized.out) >= 3
              /\ SubSeq(sanitized.out, Len(sanitized.out) - 2,
                        Len(sanitized.out)) = <<".", ".", ".">>

\* C23 witness: a text of 202 characters behind a leading blank was cut,
\* and trimmed to less than the limit.
CutAndTrimmed ==
    /\ sanitized.done
    /\ sanitized.long
    /\ Len(raw) > MAX_TEXT_LENGTH + 2
    /\ raw[1] = " "
    /\ Len(sanitized.out) = MAX_TEXT_LENGTH - 1

LengtheningSymbols == {"U+FF05", "U+23F0"}

HasLengtheningSymbol(t) == \E i \in 1..Len(t) : t[i] \in LengtheningSymbols

PercentSpoken ==
    (sanitized.done /\ raw = <<"5", "0", "%">>) =>
        sanitized.out =
            <<"5", "0", "U+30D1", "U+30FC", "U+30BB", "U+30F3", "U+30C8">>

\* C26: PersonalizationService.saveSettings(partial) stores, and returns,
\* the settings stored before it (the defaults when none are stored) with
\* exactly the fields of partial overwritten, so that a field set by an
\* earlier save keeps its value until a later save names it.
PersSettingsPartialOverwrite ==
    [][\A t \in persTasks :
          PersSaveSettingsStore(t, TRUE) =>
              storage'.settings.value =
                  [f \in PersSettingsFields |->
                      IF f \in t.partial.fields THEN t.partial.values[f]
                      ELSE IF storage.settings.present
                      THEN storage.settings.value[f]
                      ELSE persDefaultSettings[f]]]_vars

\* C27: once a saveUserProfile() and a saveWeeklySchedule() have returned,
\* in any order, the stored profile has setupProgress.weeklySchedule true,
\* and a getSetupStatus() called from then on does not list the weekly
\* schedule among the missing steps.
ScheduleProgressKept ==
    /\ (persSeen.profileSaved /\ persSeen.scheduleSaved) =>
          (storage.userProfile.present /\ storage.userProfile.weeklySchedule)
    /\ persSeen.status.returned => ~persSeen.status.scheduleMissing

\* C28: once clearAllData() has returned, and as long as no save is called,
\* none of the keys is in storage, and a getPersonalizationData() called
\* from then on returns no user profile and the default settings.
ClearedMeansNoData ==
    persSeen.cleared =>
        /\ storage = EmptyStorage
        /\ (persSeen.data.returned /\ persSeen.data.afterClear) =>
              /\ ~persSeen.data.userProfile.present
              /\ persSeen.data.settings = persDefaultSettings

\* C29  When the active item fails and a retry is allowed, the item is in
\* the pending queue afterwards with its retryCount one higher, ahead of
\* every pending item of its own priority and behind every pending item
\* of a strictly higher priority.
RetryKeepsBracket ==
    [][(OnError /\ currentSpeech # NoItem
          /\ currentSpeech.retryCount + 1 < MAX_RETRIES)
        => \E i \in 1..Len(speechQueue') :
              /\ speechQueue'[i].id = currentSpeech.id
              /\ speechQueue'[i].retryCount = currentSpeech.retryCount + 1
              /\ \A j \in (1..Len(speechQueue')) \ {i} :
                    /\ speechQueue'[j].priority = currentSpeech.priority
                          => i < j
                    /\ PRIORITY_LEVELS[speechQueue'[j].priority]
                          > PRIORITY_LEVELS[currentSpeech.priority]
                          => j < i]_vars

\* C30  When the finish event of the active item is handled while the
\* pending queue is non-empty, the same step makes the queue head the
\* active item: the step does not end with the slot idle, the queue
\* non-empty and no processQueue() under way.
FinishChainsNextItem ==
    [][(OnFinishOrCancel /\ Head(events).type = "finish"
          /\ currentSpeech # NoItem /\ Head(events).id = currentSpeech.id
          /\ speechQueue # <<>>)
        => /\ currentSpeech' = Head(speechQueue)
           /\ speechQueue' = Tail(speechQueue)
           /\ ~(currentSpeech' = NoItem /\ speechQueue' # <<>>
                  /\ pqTasks' = EmptyBag)]_vars

\* C32  An engine event affects only the item it was emitted for: when the
\* listener runs for an event of an item other than the one in the active
\* slot, the slot and the pending queue stay as they are (no callback of
\* the slot's item, no release of the slot, no retry of it).
EventTouchesOwnItemOnly ==
    [][((OnFinishOrCancel \/ OnError)
          /\ currentSpeech # NoItem
          /\ Head(events).id # currentSpeech.id)
        => /\ currentSpeech' = currentSpeech
           /\ speechQueue' = speechQueue]_vars

\* A speak() call of this step is accepted with the Urgent priority while
\* a non-Urgent item is in the active slot.
UrgentOverNonUrgent ==
    /\ nextId' = nextId + 1
    /\ currentSpeech # NoItem
    /\ currentSpeech.priority # "urgent"
    /\ \E k \in 1..Len(speechQueue') :
          /\ speechQueue'[k].id = nextId
          /\ speechQueue'[k].priority = "urgent"

\* This step calls Tts.stop(): through stopCurrent() or through stop().
CancelIssued ==
    \/ stopCurrentTasks' = stopCurrentTasks + 1
    \/ stopTasks' = stopTasks + 1

\* C39  Tts.stop() is called in exactly two situations: an Urgent request
\* is accepted while a non-Urgent item is active, or stop() is called.  An
\* Urgent request over an Urgent item or with an idle slot, and every
\* other request, cancel nothing.
CancelOnlyByUrgentOrStop ==
    [][CancelIssued <=> (UrgentOverNonUrgent \/ stopCalls' = stopCalls + 1)]_vars

\* C39 witness: a playback was cancelled for an Urgent request, an Urgent
\* item is active with another Urgent item pending, and stop() was called.
CancelledByBoth ==
    /\ preempted # {}
    /\ stopCalls > 0
    /\ currentSpeech # NoItem
    /\ currentSpeech.priority = "urgent"
    /\ \E k \in 1..Len(speechQueue) : speechQueue[k].priority = "urgent"

\* C37  Once stop() has completed, no request accepted before its
\* completion is handed to the engine: in SpecStop every request is
\* accepted before the stop() call or while stop() waits for the engine,
\* so no Tts.speak() call is made after stop() has completed.
NoHandoverAfterStop ==
    [][(stopCalls > 0 /\ stopTasks = 0)
          => Len(engineActive') <= Len(engineActive)]_vars

\* C36  Playing an item never changes the base volume: the volume that
\* getStatus() reports changes only in a saveSettings() step.
VolumeChangedOnlyBySave ==
    [][getStatus'.currentSettings.volume # getStatus.currentSettings.volume
          => \E partial \in Partials : SaveSettings(partial)]_vars

\* C33  A callback that throws does not block the scheduler: whenever a
\* listener has run for a terminal engine event (finish, cancel or error)
\* the active slot is released and a processQueue() call for the next
\* pending item is under way.
ThrowingCallbackReleasesSlot ==
    [][(events # <<>> /\ events' = Tail(events))
          => (currentSpeech' = NoItem /\ timers' > timers)]_vars

\* The engine has emitted tts-cancel for item `id` and the event is not
\* delivered yet.
CancelPending(id) ==
    \E k \in 1..Len(events) : events[k] = [type |-> "cancel", id |-> id]

\* C31  Every item whose playback was cancelled, by an Urgent preemption
\* or by stop(), has its onFinish called with false exactly once: never
\* more than once, and once as soon as its tts-cancel event is delivered.
CancelledFinishFalseOnce ==
    \A id \in fates.cancelled :
        /\ fates.finishFalse[id] <= 1
        /\ ~CancelPending(id) => fates.finishFalse[id] = 1

\* Nothing is under way: no call is suspended, no timer is armed, the
\* engine holds no utterance and every event is delivered.  Only a new
\* request or a stop() call can change such a state.
NothingUnderWay ==
    /\ Quiescent
    /\ stopCurrentTasks = 0
    /\ stopTasks = 0

\* Item `id` was played to completion, or its playback was cancelled, or
\* stop() discarded it, or it was dropped at the retry cap.
Settled(id) ==
    id \in fates.finished \cup fates.cancelled \cup fates.discarded \cup dropped

\* C34  Every accepted item is eventually played to completion, cancelled
\* or dropped after its retries, and the scheduler eventually is idle with
\* an empty queue.  When nothing is under way nothing more happens to the
\* accepted items unless a new call is made, so in every such state the
\* slot is idle, the queue is empty and every accepted item is settled.
SettledWhenNothingUnderWay ==
    NothingUnderWay =>
        /\ currentSpeech = NoItem
        /\ speechQueue = <<>>
        /\ \A id \in 1..(nextId - 1) : Settled(id)

\* ------------------------------------------------------------------ C35

\* The initialize() calls that have assigned what they loaded.
InitAssigned == {t \in BagToSet(initTasks) : t.stage \in {"loaded", "done"}}

\* C35: initialization completes although reads of storage fail: once
\* isInitialized is set the engine listeners are registered and settings
\* are held; when no call read the settings they are the defaults, with
\* enabled true, so that speak() goes on to accept; when no call read the
\* statistics they started from zero and hold at most the requests counted
\* since.
FailedReadsStillInitialize ==
    /\ isInitialized => /\ listeners > 0
                        /\ settings.loaded
    /\ (\E t \in BagToSet(initTasks) : t.stage = "done") => isInitialized
    /\ (isInitialized /\ \A t \in InitAssigned : ~t.settingsOk) =>
          /\ settings = getDefaultSettings
          /\ SpeakEnabled(settings)
    /\ (isInitialized /\ \A t \in InitAssigned : ~t.statsOk) =>
          usageStats <= nextId - 1

\* C35 witness: the only initialize() call made had both of its reads
\* rejected and has completed; a request made afterwards was accepted and
\* its item handed to the engine.
SpokenAfterFailedReads ==
    /\ isInitialized
    /\ BagCardinality(initTasks) = 1
    /\ \A t \in BagToSet(initTasks) :
          t.stage = "done" /\ ~t.settingsOk /\ ~t.statsOk
    /\ settings = getDefaultSettings
    /\ listeners = 1
    /\ engineActive = <<1>>
    /\ usageStats = 1

\* ------------------------------------------------------------------ C38

\* C38: the total request count never decreases (no clear operation is
\* among the steps), also when initialize() calls overlap; stated for the
\* runs in which every read of storage succeeds.
UsageStatsNeverDecrease ==
    [][(\A t \in BagToSet(initTasks) : t.settingsOk /\ t.statsOk)
          => usageStats' >= usageStats]_vars

====
